---- MODULE Spec2Model ----
(***************************************************************************)
(* A model of the FastAC access-control engine (oarkflow/fastac):          *)
(*   - the rule table (policy.Policy): AddRule, RemoveRule, Clear;         *)
(*   - the enforcer (Enforcer.enforce, Enforcer.FilterWithContext) driving *)
(*     the matcher over the rule table and folding effects through the     *)
(*     effector;                                                           *)
(*   - the role manager (rbac.RoleManager): AddLink, DeleteLink, HasLink,  *)
(*     GetRoles, GetUsers, SetMatcher, Clear, also with two goroutines     *)
(*     querying at once;                                                   *)
(*   - the path matcher (pathmatch.Path): Compile, Match, FindSubmatch;    *)
(*   - Enforcer.AddRules / RemoveRules over the StorageController;         *)
(*   - NewEnforcer, LoadPolicy and SavePolicy over the adapter;            *)
(*   - RoleManager.Range, and AddLink running beside the queries;          *)
(*   - Policy.Range.                                                       *)
(* Several specifications share the module: SpecPolicy (rule table),       *)
(* SpecEnforce (rule table + Enforce/Filter), SpecRM (role manager) and    *)
(* SpecRMPlain / SpecRMPlainFair (role manager without a sub-matcher).     *)
(* The variables a specification does not use keep their initial value.    *)
(***************************************************************************)
EXTENDS Integers, Sequences, FiniteSets, TLC

VARIABLES
    \* ---- rule table (policy.Policy) ----
    ruleMap,      \* Policy.ruleMap: fingerprint -> rule
    call,         \* the API call in progress or last returned, with its results
    emitted,      \* events the Emitter received during that call, oldest first
    \* ---- one Enforce / Filter call (enforcer.go) ----
    pc,           \* "idle" | "range" (inside RangeMatches) | "stop" (visitor said false / driver error)
    ctx,          \* the call's Context: matcher, effector, request values
    remaining,    \* fingerprints the range over ruleMap has not yet produced
    visited,      \* rules the matcher driver has evaluated so far, in order
    effects,      \* enforce: effects   (Filter: unused)
    matches,      \* enforce: matches   (Filter: rules)
    res,          \* enforce: res
    eftErr,       \* enforce: eftErr
    rangeErr,     \* the error RangeMatches returns
    calls,        \* the MergeEffects calls of this Enforce call, in order
    prevFilter,   \* the last Filter result that is still comparable (same request, only additions since)
    \* ---- role manager (rbac.RoleManager) ----
    allRoles,           \* RoleManager.allRoles: the names that have a Role
    patternRoles,       \* RoleManager.patternRoles: the names stored as patterns
    roles,              \* the links: <<a, b>> when Role a holds b in roles (and b holds a in users)
    matched,            \* the match edges: <<p, n>> when pattern Role p holds n in matched
    redundant,          \* <<a, b>> when Role a holds b in redundant
    matcher,            \* RoleManager.matcher (Nil: none installed)
    maxHierarchyLevel,  \* RoleManager.maxHierarchyLevel
    matchingFuncCache,  \* RoleManager.matchingFuncCache: <<str, pattern, value>>
    rmCall,             \* the role-manager call in progress or last returned
    rpc,                \* HasLink: "idle" | "search" (in hasLinkHelper) | "defer" (about to return)
    frontier,           \* hasLinkHelper: the names in roles
    level,              \* hasLinkHelper: level
    expansions,         \* recursive calls hasLinkHelper has made in this HasLink call
    \* ---- concurrent queries on one role manager ----
    thr,                \* per goroutine: the query it runs and where it stands in it
    concBefore,         \* allRoles / patternRoles when the first of the running queries began
    \* ---- one compiled pathmatch.Path ----
    path,               \* the Path: Segments, equalCheck, save
    pcall,              \* the last Match / FindSubmatch call on it and its result
    \* ---- Enforcer.AddRules / RemoveRules over the StorageController ----
    autosave,           \* StorageController: autosave enabled
    batch,              \* the AddRules / RemoveRules call in progress or last returned
    \* ---- the Enforcer's adapter and StorageController ----
    adapter,            \* Enforcer.adapter
    sc,                 \* Enforcer.sc: the adapter it writes to, and whether it is enabled
    ecall               \* the NewEnforcer / LoadPolicy / SavePolicy call in progress or last returned

policyVars  == <<ruleMap, call, emitted>>
enforceVars == <<pc, ctx, remaining, visited, effects, matches, res, eftErr, rangeErr, calls, prevFilter>>
rmVars      == <<allRoles, patternRoles, roles, matched, redundant, matcher, maxHierarchyLevel,
                 matchingFuncCache, rmCall, rpc, frontier, level, expansions>>
concVars    == <<thr, concBefore>>
pathVars    == <<path, pcall>>
batchVars   == <<autosave, batch>>
storeVars   == <<adapter, sc, ecall>>
restVars    == <<concVars, pathVars, batchVars, storeVars>>

----------------------------------------------------------------------------
(* Bounds of the model. *)
MaxRules == 3          \* rules held by the table at once
MaxLinks == 2          \* links held by the role graph at once, no sub-matcher installed
MaxPatternLinks == 1   \* links held by the role graph at once, a sub-matcher installed
MaxLevel == 3          \* largest maxHierarchyLevel a role manager is built with
MaxPatternSegs == 3    \* segments of a path expression, after the leading separator
MaxInputSegs == 4      \* segments of a matched string, after the leading separator
MaxBatch == 2          \* rules passed to one AddRules / RemoveRules call
MaxOptions == 1        \* options passed to NewEnforcer
MaxSeqSegs == 3        \* segments of patterns and inputs when a Path is matched repeatedly

(* Values. *)
Allow         == "Allow"
Deny          == "Deny"
Indeterminate == "Indeterminate"
Nil           == "nil"
Err           == "error"

Acts == {"read", "write"}
Efts == {"allow", "deny"}

\* Rules of the policy definition p = sub, obj, act, eft; the eft column may be omitted.
FullRules  == {<<"alice", "data1", a, e>> : a \in Acts, e \in Efts}
                \cup {<<"bob", "data1", "read", e>> : e \in Efts}
ShortRules == {<<"alice", "data1", "read">>}
Rules      == FullRules \cup ShortRules

Requests == {<<"alice", "data1", a>> : a \in Acts}

\* Matcher expressions a Context can select.
\*   m  : r.sub == p.sub && r.obj == p.obj && r.act == p.act
\*   m2 : r.sub == p.sub
\*   m3 : r.sub == p.sub && (p.act == "read" || undefinedFn(p.act))
\*        (the evaluation fails on a rule of the subject whose act is not "read")
Matchers == {"m", "m2", "m3"}

\* Effect-combination rules a Context can select, and a user-supplied effector.
AllowOverride == "some(where(p_eft==allow))"
DenyOverride  == "!some(where(p_eft==deny))"
AllowAndDeny  == "some(where(p_eft==allow)) && !some(where(p_eft==deny))"
Priority      == "priority(p_eft) || deny"
Custom        == "custom"
Effectors     == {AllowOverride, DenyOverride, AllowAndDeny, Priority, Custom}

NoCall == [op |-> "none"]
NoCtx  == [matcher |-> "m", effector |-> AllowOverride, req |-> <<>>, mode |-> "none"]
NoPrev == [mode |-> "none"]

----------------------------------------------------------------------------
(* Pure helpers. *)

\* util.Hash: the fingerprint of a rule is its token sequence.
Hash(rule) == rule

\* PolicyDef.GetEft: the eft column if present, else Allow.
GetEft(rule) ==
    IF Len(rule) >= 4
    THEN (IF rule[4] = "deny" THEN Deny ELSE IF rule[4] = "allow" THEN Allow ELSE Indeterminate)
    ELSE Allow

\* One evaluation of the matcher expression on (request, rule): "true", "false" or "error".
EvalMatcher(m, req, rule) ==
    CASE m = "m"  -> IF req[1] = rule[1] /\ req[2] = rule[2] /\ req[3] = rule[3] THEN "true" ELSE "false"
      [] m = "m2" -> IF req[1] = rule[1] THEN "true" ELSE "false"
      [] OTHER    -> IF req[1] # rule[1] THEN "false"
                     ELSE IF rule[3] = "read" THEN "true" ELSE "error"

SomeEffect(effs, e) == \E i \in 1..Len(effs) : effs[i] = e

\* The first non-indeterminate effect of a sequence (Indeterminate if none).
RECURSIVE FirstDecided(_)
FirstDecided(effs) ==
    IF effs = <<>> THEN Indeterminate
    ELSE IF Head(effs) # Indeterminate THEN Head(effs)
    ELSE FirstDecided(Tail(effs))

\* Effector.MergeEffects(effects, matches, complete): the set of (decision, error)
\* pairs the call can return.
MergeEffects(e, effs, mtchs, complete) ==
    CASE e = AllowOverride ->
            {[res |-> IF SomeEffect(effs, Allow) THEN Allow
                      ELSE IF complete THEN Deny ELSE Indeterminate, err |-> Nil]}
      [] e = DenyOverride ->
            {[res |-> IF SomeEffect(effs, Deny) THEN Deny
                      ELSE IF complete THEN Allow ELSE Indeterminate, err |-> Nil]}
      [] e = AllowAndDeny ->
            {[res |-> IF SomeEffect(effs, Deny) THEN Deny
                      ELSE IF ~complete THEN Indeterminate
                      ELSE IF SomeEffect(effs, Allow) THEN Allow ELSE Deny, err |-> Nil]}
      [] e = Priority ->
            {[res |-> IF FirstDecided(effs) # Indeterminate THEN FirstDecided(effs)
                      ELSE IF complete THEN Deny ELSE Indeterminate, err |-> Nil]}
      [] OTHER ->
            \* a user-supplied effector: any decision, with or without an error;
            \* with complete=true it commits to Allow or Deny
            {[res |-> d, err |-> x] :
                d \in (IF complete THEN {Allow, Deny} ELSE {Allow, Deny, Indeterminate}),
                x \in {Nil, Err}}

----------------------------------------------------------------------------
(* Rule table: policy.Policy *)

EmptyMap == [k \in {} |-> <<>>]

\* The locals of a returned Enforce / Filter call are gone once the next call starts.
ResetLocals ==
    /\ pc' = "idle"
    /\ ctx' = NoCtx
    /\ remaining' = {}
    /\ visited' = <<>>
    /\ effects' = <<>>
    /\ matches' = <<>>
    /\ res' = Indeterminate
    /\ eftErr' = Nil
    /\ rangeErr' = Nil
    /\ calls' = <<>>
    /\ UNCHANGED <<rmVars, restVars>>

\* Mutant: AddRule without the presence test.
AddRuleNoCheck(rule) ==
    /\ pc = "idle"
    /\ LET key == Hash(rule) IN
       /\ Cardinality(DOMAIN ruleMap \cup {key}) <= MaxRules
       /\ ruleMap' = [k \in DOMAIN ruleMap \cup {key} |-> IF k = key THEN rule ELSE ruleMap[k]]
       /\ emitted' = <<[evt |-> "RULE_ADDED", rule |-> rule]>>
       /\ call' = [op |-> "AddRule", rule |-> rule, ret |-> TRUE, err |-> Nil]
    /\ UNCHANGED prevFilter
    /\ ResetLocals

\* Policy.AddRule(rule)
AddRule(rule) ==
    /\ pc = "idle"
    /\ LET key == Hash(rule) IN
       IF key \in DOMAIN ruleMap
       THEN /\ call' = [op |-> "AddRule", rule |-> rule, ret |-> FALSE, err |-> Nil]
            /\ emitted' = <<>>
            /\ UNCHANGED ruleMap
       ELSE /\ Cardinality(DOMAIN ruleMap) < MaxRules
            /\ ruleMap' = [k \in DOMAIN ruleMap \cup {key} |-> IF k = key THEN rule ELSE ruleMap[k]]
            /\ emitted' = <<[evt |-> "RULE_ADDED", rule |-> rule]>>
            /\ call' = [op |-> "AddRule", rule |-> rule, ret |-> TRUE, err |-> Nil]
    /\ UNCHANGED prevFilter
    /\ ResetLocals

\* Mutant: RemoveRule without the presence test.
RemoveRuleNoCheck(rule) ==
    /\ pc = "idle"
    /\ LET key == Hash(rule) IN
       /\ ruleMap' = [k \in DOMAIN ruleMap \ {key} |-> ruleMap[k]]
       /\ emitted' = <<[evt |-> "RULE_REMOVED", rule |-> rule]>>
       /\ call' = [op |-> "RemoveRule", rule |-> rule, ret |-> TRUE, err |-> Nil]
       /\ prevFilter' = NoPrev
    /\ ResetLocals

\* Policy.RemoveRule(rule)
RemoveRule(rule) ==
    /\ pc = "idle"
    /\ LET key == Hash(rule) IN
       IF key \notin DOMAIN ruleMap
       THEN /\ call' = [op |-> "RemoveRule", rule |-> rule, ret |-> FALSE, err |-> Nil]
            /\ emitted' = <<>>
            /\ UNCHANGED <<ruleMap, prevFilter>>
       ELSE /\ ruleMap' = [k \in DOMAIN ruleMap \ {key} |-> ruleMap[k]]
            /\ emitted' = <<[evt |-> "RULE_REMOVED", rule |-> rule]>>
            /\ call' = [op |-> "RemoveRule", rule |-> rule, ret |-> TRUE, err |-> Nil]
            /\ prevFilter' = NoPrev
    /\ ResetLocals

\* Policy.Clear()
Clear ==
    /\ pc = "idle"
    /\ ruleMap' = EmptyMap
    /\ emitted' = <<[evt |-> "CLEARED"]>>
    /\ call' = [op |-> "Clear", err |-> Nil]
    /\ prevFilter' = NoPrev
    /\ ResetLocals

\* Policy.Range(fn): the call begins; nothing was produced yet.
PolicyRangeBegin ==
    /\ pc = "idle"
    /\ pc' = "prange"
    /\ ctx' = [NoCtx EXCEPT !.mode = "range"]
    /\ remaining' = DOMAIN ruleMap
    /\ visited' = <<>>
    /\ calls' = <<>>
    /\ call' = [op |-> "Range", done |-> FALSE, before |-> ruleMap]
    /\ emitted' = <<>>
    /\ prevFilter' = NoPrev
    /\ UNCHANGED <<ruleMap, effects, matches, res, eftErr, rangeErr, rmVars, restVars>>

\* Mutant: the loop goes on whatever the visitor returns.
VisitorStopsNever(b) == FALSE

\* Policy.Range, line 62: the visitor returned false.
VisitorStops(b) == ~b

\* Policy.Range: one iteration of the loop over ruleMap, in the map's order; the
\* visitor returns true or false.
PolicyRangeStep ==
    /\ pc = "prange"
    /\ \E k \in remaining, b \in BOOLEAN :
          /\ remaining' = remaining \ {k}
          /\ visited' = Append(visited, ruleMap[k])
          /\ calls' = Append(calls, [rule |-> ruleMap[k], ret |-> b])
          /\ pc' = IF VisitorStops(b) THEN "pstop" ELSE "prange"
    /\ UNCHANGED <<ruleMap, call, emitted, ctx, effects, matches, res, eftErr, rangeErr,
                   prevFilter, rmVars, restVars>>

\* Policy.Range returns: after the break, or when the map is exhausted.
PolicyRangeReturn ==
    /\ pc = "pstop" \/ (pc = "prange" /\ remaining = {})
    /\ pc' = "idle"
    /\ call' = [call EXCEPT !.done = TRUE]
    /\ UNCHANGED <<ruleMap, emitted, ctx, remaining, visited, effects, matches, res, eftErr,
                   rangeErr, calls, prevFilter, rmVars, restVars>>

----------------------------------------------------------------------------
(* Enforcer.AddRules / Enforcer.RemoveRules over the StorageController *)

\* A rule Model.AddRule / Model.RemoveRule rejects with an error.
BadRule == <<"unknown">>

\* The rules a batch is made of.
BatchRules == ShortRules \cup {r \in FullRules : r[1] = "bob"} \cup {BadRule}

RECURSIVE SeqsUpTo(_, _)
SeqsUpTo(S, n) ==
    IF n = 0 THEN {<<>>}
    ELSE LET shorter == SeqsUpTo(S, n - 1) IN
         shorter \cup {Append(q, x) : q \in {t \in shorter : Len(t) = n - 1}, x \in S}

Batches == SeqsUpTo(BatchRules, MaxBatch)

BatchOps == {"AddRules", "RemoveRules"}

\* Model.AddRule / Model.RemoveRule on the table, as Policy.AddRule / Policy.RemoveRule.
TableAfter(op, table, rule) ==
    LET key == Hash(rule) IN
    IF op = "AddRules"
    THEN (IF key \in DOMAIN table THEN table
          ELSE [k \in DOMAIN table \cup {key} |-> IF k = key THEN rule ELSE table[k]])
    ELSE [k \in DOMAIN table \ {key} |-> table[k]]

\* Mutant: the batch never takes the autosave branch.
BatchDefersNever(enabled) == FALSE

\* AddRules line 203, RemoveRules line 222: if e.sc.AutosaveEnabled().
BatchDefers(enabled) == enabled

BatchIdle == IF batch.op = "none" THEN TRUE ELSE batch.done

BatchFrame == UNCHANGED <<call, emitted, enforceVars, rmVars, concVars, pathVars, storeVars>>

\* OptionAutosave(enable) applied to the Enforcer, between batches.
SetAutosave(enable) ==
    /\ BatchIdle
    /\ autosave' = enable
    /\ batch' = NoCall
    /\ UNCHANGED ruleMap
    /\ BatchFrame

\* AddRules / RemoveRules entry: with autosave enabled, disable it and register the
\* deferred function.
BatchBegin(op, rules) ==
    /\ BatchIdle
    /\ pc = "idle"
    /\ batch' = [op |-> op, done |-> FALSE, stage |-> "loop", rules |-> rules, applied |-> 0,
                 before |-> ruleMap, entry |-> autosave, deferred |-> BatchDefers(autosave),
                 flushes |-> 0, flushedAt |-> -1, flushFailed |-> FALSE,
                 appliedWith |-> {}, err |-> Nil, panic |-> FALSE, exit |-> autosave]
    /\ autosave' = IF BatchDefers(autosave) THEN FALSE ELSE autosave
    /\ UNCHANGED ruleMap
    /\ BatchFrame

\* One iteration of the loop: the rule is rejected (return err) or applied to the
\* model; the StorageController hears of a change and, under autosave, flushes it
\* at once.
BatchStep ==
    /\ ~BatchIdle
    /\ batch.stage = "loop"
    /\ batch.applied < Len(batch.rules)
    /\ LET rule == batch.rules[batch.applied + 1]
           after == TableAfter(batch.op, ruleMap, rule) IN
       IF rule = BadRule
       THEN /\ batch' = [batch EXCEPT !.stage = "return", !.err = Err]
            /\ UNCHANGED ruleMap
       ELSE /\ Cardinality(DOMAIN after) <= MaxRules
            /\ ruleMap' = after
            /\ batch' = [batch EXCEPT
                           !.applied = @ + 1,
                           !.appliedWith = @ \cup {autosave},
                           !.flushes = IF autosave /\ after # ruleMap THEN @ + 1 ELSE @]
    /\ UNCHANGED autosave
    /\ BatchFrame

\* The call ends (return nil after the loop, or return err): the deferred function,
\* if registered, enables autosave and calls Flush; a failing Flush makes it panic.
BatchReturn ==
    /\ ~BatchIdle
    /\ batch.stage = "return" \/ batch.applied = Len(batch.rules)
    /\ IF batch.deferred
       THEN /\ autosave' = TRUE
            /\ \E failed \in BOOLEAN :
                  batch' = [batch EXCEPT !.done = TRUE, !.stage = "done",
                                         !.flushes = @ + 1, !.flushedAt = batch.applied,
                                         !.flushFailed = failed, !.panic = failed,
                                         !.exit = TRUE]
       ELSE /\ batch' = [batch EXCEPT !.done = TRUE, !.stage = "done", !.exit = autosave]
            /\ UNCHANGED autosave
    /\ UNCHANGED ruleMap
    /\ BatchFrame

----------------------------------------------------------------------------
(* Enforcer: NewEnforcer, SetAdapter, LoadPolicy, SavePolicy *)

\* Adapters: the nil interface value, the no-op adapter, a file adapter for a path,
\* and an adapter the caller built.
NilAdapter       == [kind |-> "nil", path |-> Nil]
NoopAdapter      == [kind |-> "noop", path |-> Nil]
GivenAdapter     == [kind |-> "given", path |-> Nil]
FileAdapter(f)   == [kind |-> "file", path |-> f]

Files == {"policy.csv", "other.csv"}

\* The adapter argument of NewEnforcer: a path, a storage.Adapter, or nil.
AdapterArgs == {[kind |-> "string", path |-> f] : f \in Files}
                  \cup {GivenAdapter, NilAdapter}

\* The rules an adapter holds.
StoredIn(a) ==
    IF a = FileAdapter("policy.csv")
      THEN {<<"alice", "data1", "read">>, <<"bob", "data1", "read", "allow">>}
    ELSE IF a = FileAdapter("other.csv")
      THEN {<<"bob", "data1", "read", "allow">>, <<"bob", "data1", "read", "deny">>}
    ELSE IF a = GivenAdapter THEN {<<"alice", "data1", "read">>}
    ELSE {}

\* The model's table after the rules rs were added to it.
TableWith(table, rs) ==
    [k \in DOMAIN table \cup {Hash(r) : r \in rs} |->
        IF k \in DOMAIN table THEN table[k] ELSE CHOOSE r \in rs : Hash(r) = k]

\* Options: OptionAutosave(b), OptionStorage(b).
Options == {[opt |-> o, on |-> b] : o \in {"autosave", "storage"}, b \in BOOLEAN}

OptionLists == SeqsUpTo(Options, MaxOptions)

\* The state (autosave, controller enabled) after the options were applied in order.
RECURSIVE ApplyOptions(_, _)
ApplyOptions(st, opts) ==
    IF opts = <<>> THEN st
    ELSE LET o == Head(opts) IN
         ApplyOptions(IF o.opt = "autosave" THEN [st EXCEPT !.autosave = o.on]
                      ELSE [st EXCEPT !.enabled = o.on],
                      Tail(opts))

\* NewEnforcer, lines 99-113: the value of the a3 declared at line 99 when
\* SetAdapter is called. In the string case 'a3 := ...' of line 102 declares a new
\* a3 inside the case; the outer one keeps its zero value.
AdapterSet(arg) ==
    IF arg.kind = "string" THEN NilAdapter
    ELSE IF arg.kind = "given" THEN arg
    ELSE NoopAdapter

\* NewEnforcer, lines 109-110: without an adapter OptionStorage(false) is put before
\* the caller's options.
OptionsApplied(arg, opts) ==
    IF arg.kind \in {"string", "given"} THEN opts
    ELSE <<[opt |-> "storage", on |-> FALSE]>> \o opts

StoreIdle == IF ecall.op = "none" THEN TRUE ELSE ecall.done

StoreFrame == UNCHANGED <<call, emitted, enforceVars, rmVars, concVars, pathVars, batch>>

\* NewEnforcer(model, adapter, options...) on a valid model; with a path the file
\* adapter loads its rules into the model, or fails.
NewEnforcer(arg, opts) ==
    /\ StoreIdle
    /\ \E loadFails \in (IF arg.kind = "string" THEN BOOLEAN ELSE {FALSE}) :
         IF loadFails
         THEN /\ \E part \in SUBSET StoredIn(FileAdapter(arg.path)) :
                    /\ part # StoredIn(FileAdapter(arg.path))
                    /\ ruleMap' = TableWith(ruleMap, part)
              /\ ecall' = [op |-> "NewEnforcer", done |-> TRUE, arg |-> arg, opts |-> opts,
                           err |-> Err]
              /\ UNCHANGED <<adapter, sc, autosave>>
         ELSE LET st == ApplyOptions([autosave |-> FALSE, enabled |-> TRUE],
                                     OptionsApplied(arg, opts)) IN
              /\ ruleMap' = IF arg.kind = "string"
                            THEN TableWith(ruleMap, StoredIn(FileAdapter(arg.path)))
                            ELSE ruleMap
              /\ adapter' = AdapterSet(arg)
              /\ sc' = [adapter |-> AdapterSet(arg), enabled |-> st.enabled]
              /\ autosave' = st.autosave
              /\ ecall' = [op |-> "NewEnforcer", done |-> TRUE, arg |-> arg, opts |-> opts,
                           err |-> Nil]
    /\ StoreFrame

\* Enforcer.SavePolicy: e.adapter.SavePolicy(e.model); a call on the nil interface
\* value panics, the no-op adapter reports that it does not support it.
SavePolicy ==
    /\ StoreIdle
    /\ ecall' = [op |-> "SavePolicy", done |-> TRUE,
                 ret |-> IF adapter = NilAdapter THEN "panic"
                         ELSE IF adapter = NoopAdapter THEN Err ELSE Nil,
                 target |-> adapter, saved |-> ruleMap]
    /\ UNCHANGED <<ruleMap, adapter, sc, autosave>>
    /\ StoreFrame

\* Mutant: LoadPolicy leaves the controller as it is.
LoadDisablesNever(enabled) == FALSE

\* LoadPolicy, line 151: if e.sc.Enabled().
LoadDisables(enabled) == enabled

\* Enforcer.LoadPolicy entry: an enabled controller is disabled and its enabling
\* deferred; then e.adapter.LoadPolicy is called.
LoadPolicyBegin ==
    /\ StoreIdle
    /\ ecall' = [op |-> "LoadPolicy", done |-> FALSE, before |-> ruleMap,
                 enabledBefore |-> sc.enabled, deferred |-> LoadDisables(sc.enabled),
                 todo |-> StoredIn(adapter), heard |-> {}, err |-> Nil, panic |-> FALSE]
    /\ sc' = [sc EXCEPT !.enabled = IF LoadDisables(sc.enabled) THEN FALSE ELSE @]
    /\ UNCHANGED <<ruleMap, adapter, autosave>>
    /\ StoreFrame

\* The adapter adds one of its rules to the model; an enabled controller hears of
\* the change.
LoadPolicyStep ==
    /\ ~StoreIdle
    /\ ecall.op = "LoadPolicy"
    /\ ecall.err = Nil
    /\ \E r \in ecall.todo :
         LET after == TableAfter("AddRules", ruleMap, r) IN
         /\ ruleMap' = after
         /\ ecall' = [ecall EXCEPT !.todo = @ \ {r},
                                   !.heard = IF sc.enabled /\ after # ruleMap
                                             THEN @ \cup {r} ELSE @]
    /\ UNCHANGED <<adapter, sc, autosave>>
    /\ StoreFrame

\* The adapter's LoadPolicy fails: an I/O error at any point, the no-op adapter at
\* once; a call on the nil interface value panics.
LoadPolicyFail ==
    /\ ~StoreIdle
    /\ ecall.op = "LoadPolicy"
    /\ ecall.err = Nil
    /\ ecall.todo # {} \/ adapter \in {NilAdapter, NoopAdapter}
    /\ ecall' = [ecall EXCEPT !.err = Err, !.panic = (adapter = NilAdapter)]
    /\ UNCHANGED <<ruleMap, adapter, sc, autosave>>
    /\ StoreFrame

\* LoadPolicy ends: the deferred e.sc.Enable() runs.
LoadPolicyReturn ==
    /\ ~StoreIdle
    /\ ecall.op = "LoadPolicy"
    /\ \/ ecall.err # Nil
       \/ ecall.todo = {} /\ adapter \notin {NilAdapter, NoopAdapter}
    /\ ecall' = [ecall EXCEPT !.done = TRUE]
    /\ sc' = [sc EXCEPT !.enabled = IF ecall.deferred THEN TRUE ELSE @]
    /\ UNCHANGED <<ruleMap, adapter, autosave>>
    /\ StoreFrame

----------------------------------------------------------------------------
(* Role manager: rbac.RoleManager *)

\* Role names.  With the sub-matcher installed, "book_group_*" is a pattern.
Names == {"book_group_1", "reader", "book_group_*"}

REDUNDANT_ROLE == "redundant_role"
NoDomain       == "none"
Domains        == {NoDomain, REDUNDANT_ROLE}

\* The sub-matchers SetMatcher can install: none, or a prefix matcher.
PrefixMatcher == "prefix"
SubMatchers   == {Nil, PrefixMatcher}

\* maxHierarchyLevel values a role manager is constructed with.
Levels == -1..MaxLevel

\* The model's bound on the number of links under sub-matcher mm.
LinkBound(mm) == IF mm = Nil THEN MaxLinks ELSE MaxPatternLinks

\* util.IMatcher.IsPattern of the prefix matcher: the name holds the wildcard.
IsPattern(s) == s = "book_group_*"

\* util.IMatcher.Match of the prefix matcher: str starts with the pattern's text
\* before its trailing "*"; a pattern without "*" matches itself only.
Match(str, pattern) ==
    IF pattern = "book_group_*" THEN str \in {"book_group_1", "book_group_*"}
    ELSE str = pattern

\* The role manager as one value.
Graph == [allRoles |-> allRoles, patternRoles |-> patternRoles, roles |-> roles,
          matched |-> matched, redundant |-> redundant, cache |-> matchingFuncCache,
          matcher |-> matcher]

\* RoleManager.Clear, as a value: empty maps, a fresh cache; the matcher stays.
ClearGraph(g) == [allRoles |-> {}, patternRoles |-> {}, roles |-> {},
                  matched |-> {}, redundant |-> {}, cache |-> {}, matcher |-> g.matcher]

\* RoleManager.match: the cached value for the key if there is one, else Match.
\* (The cache holds at most |Names|^2 keys, below its capacity of 100.)
RmMatch(cache, str, pattern) ==
    IF \E e \in cache : e[1] = str /\ e[2] = pattern
    THEN (CHOOSE e \in cache : e[1] = str /\ e[2] = pattern)[3]
    ELSE Match(str, pattern)

\* RoleManager.match: the cache after match was called on each of the keys.
CachePut(cache, keys) ==
    cache \cup {<<k[1], k[2], RmMatch(cache, k[1], k[2])>> : k \in keys}

\* RoleManager.getRole(name): the role manager after the call.
GetRole(g, name) ==
    IF name \in g.allRoles THEN g
    ELSE LET g1 == [g EXCEPT !.allRoles = @ \cup {name}] IN
         IF g.matcher = Nil THEN g1
         ELSE IF IsPattern(name)
         THEN \* rangeMatchingRoles: every other role whose name matches the pattern
              LET others == {n \in g1.allRoles : n # name} IN
              [g1 EXCEPT !.patternRoles = @ \cup {name},
                         !.cache = CachePut(@, {<<n, name>> : n \in others}),
                         !.matched = @ \cup {<<name, n>> : n \in {x \in others : RmMatch(g.cache, x, name)}}]
         ELSE \* rangeMatchingPatterns: every other pattern the name matches
              LET others == {p \in g1.patternRoles : p # name} IN
              [g1 EXCEPT !.cache = CachePut(@, {<<name, p>> : p \in others}),
                         !.matched = @ \cup {<<p, name>> : p \in {x \in others : RmMatch(g.cache, name, x)}}]

\* RoleManager.getRole(name): its second result, created.
Created(g, name) == name \notin g.allRoles

\* RoleManager.removeRole(name): the role manager after the call
\* (removeMatches drops the role's match edges in both directions).
RemoveRole(g, name) ==
    [g EXCEPT !.allRoles = @ \ {name},
              !.matched = {e \in @ : e[1] # name /\ e[2] # name},
              !.patternRoles = @ \ {name}]

\* Role.rangeRoles: the role's own roles, the roles matched by them, and the roles
\* of the patterns the role is matched by.
RangeRoles(g, name) ==
    LET own == {e[2] : e \in {x \in g.roles : x[1] = name}}
        viaMatched == {e[2] : e \in {x \in g.matched : x[1] \in own}}
        matchedBy == {e[1] : e \in {x \in g.matched : x[2] = name}}
        viaPatterns == {e[2] : e \in {x \in g.roles : x[1] \in matchedBy}}
    IN  own \cup viaMatched \cup viaPatterns

\* Role.rangeUsers: the mirror image of rangeRoles.
RangeUsers(g, name) ==
    LET own == {e[1] : e \in {x \in g.roles : x[2] = name}}
        viaMatched == {e[2] : e \in {x \in g.matched : x[1] \in own}}
        matchedBy == {e[1] : e \in {x \in g.matched : x[2] = name}}
        viaPatterns == {e[1] : e \in {x \in g.roles : x[2] \in matchedBy}}
    IN  own \cup viaMatched \cup viaPatterns

\* RoleManager.AddLink(name1, name2, domains...): the role manager after the call.
AddLinkGraph(g, name1, name2, dom) ==
    LET g2 == GetRole(GetRole(g, name1), name2) IN
    [g2 EXCEPT !.redundant = IF dom = REDUNDANT_ROLE THEN @ \cup {<<name1, name2>>} ELSE @,
               !.roles = @ \cup {<<name1, name2>>}]

\* RoleManager.DeleteLink(name1, name2, domains...): the role manager after the call.
DeleteLinkGraph(g, name1, name2, dom) ==
    LET g2 == GetRole(GetRole(g, name1), name2) IN
    [g2 EXCEPT !.redundant = IF dom = REDUNDANT_ROLE THEN @ \ {<<name1, name2>>} ELSE @,
               !.roles = @ \ {<<name1, name2>>}]

SetGraph(g) ==
    /\ allRoles' = g.allRoles
    /\ patternRoles' = g.patternRoles
    /\ roles' = g.roles
    /\ matched' = g.matched
    /\ redundant' = g.redundant
    /\ matchingFuncCache' = g.cache
    /\ matcher' = g.matcher

\* What a query must leave as it found it.
Snapshot == [allRoles |-> allRoles, patternRoles |-> patternRoles, roles |-> roles]

\* No HasLink search is in progress.
NoSearch ==
    /\ rpc' = "idle"
    /\ frontier' = {}
    /\ level' = 0
    /\ expansions' = 0

\* RoleManager.AddLink
AddLink(name1, name2, dom) ==
    /\ rpc = "idle"
    /\ Cardinality(roles \cup {<<name1, name2>>}) <= LinkBound(matcher)
    /\ dom = REDUNDANT_ROLE => Cardinality(redundant \cup {<<name1, name2>>}) <= LinkBound(matcher)
    /\ SetGraph(AddLinkGraph(Graph, name1, name2, dom))
    /\ rmCall' = [op |-> "AddLink", done |-> TRUE]
    /\ NoSearch
    /\ UNCHANGED <<maxHierarchyLevel, policyVars, enforceVars, restVars>>

\* RoleManager.DeleteLink
DeleteLink(name1, name2, dom) ==
    /\ rpc = "idle"
    /\ SetGraph(DeleteLinkGraph(Graph, name1, name2, dom))
    /\ rmCall' = [op |-> "DeleteLink", done |-> TRUE]
    /\ NoSearch
    /\ UNCHANGED <<maxHierarchyLevel, policyVars, enforceVars, restVars>>

\* RoleManager.Clear
RMClear ==
    /\ rpc = "idle"
    /\ SetGraph(ClearGraph(Graph))
    /\ rmCall' = [op |-> "Clear", done |-> TRUE]
    /\ NoSearch
    /\ UNCHANGED <<maxHierarchyLevel, policyVars, enforceVars, restVars>>

\* Mutant: rangeLinks without the test on user.redundant.
RangeLinksAll(g) == g.roles

\* rangeLinks: the links the visitor is shown, those not marked redundant.
RangeLinks(g) == g.roles \ g.redundant

\* The names of the roles linked before a Range call.
RangeNames == {"book_group_1", "reader"}

RMRangeFrame ==
    UNCHANGED <<allRoles, patternRoles, roles, matched, redundant, matcher, maxHierarchyLevel,
                matchingFuncCache, frontier, level, expansions, policyVars, enforceVars,
                restVars>>

\* RoleManager.Range(fn): rangeLinks starts the Range over allRoles.
RMRangeBegin ==
    /\ rpc = "idle"
    /\ rpc' = "range"
    /\ rmCall' = [op |-> "Range", done |-> FALSE, users |-> allRoles, user |-> Nil,
                  inner |-> {}, visits |-> <<>>]
    /\ RMRangeFrame

\* rangeLinks, the outer callback is entered for the next user of allRoles (the
\* callback of the user before has returned true): the Range over user.roles starts.
RMRangeUser ==
    /\ rpc = "range"
    /\ rmCall.inner = {}
    /\ \E u \in rmCall.users :
          rmCall' = [rmCall EXCEPT !.users = @ \ {u}, !.user = u,
                                   !.inner = {l[2] : l \in {x \in roles : x[1] = u}}]
    /\ UNCHANGED rpc
    /\ RMRangeFrame

\* rangeLinks, the inner callback on one role of the user: a role marked redundant is
\* passed over; otherwise the visitor is called and its answer is the callback's, so
\* false ends the Range over this user's roles.
RMRangeLink ==
    /\ rpc = "range"
    /\ \E r \in rmCall.inner :
          IF <<rmCall.user, r>> \in redundant
          THEN rmCall' = [rmCall EXCEPT !.inner = @ \ {r}]
          ELSE \E ans \in BOOLEAN :
                 rmCall' = [rmCall EXCEPT
                              !.inner = IF ans THEN @ \ {r} ELSE {},
                              !.visits = Append(@, [link |-> <<rmCall.user, r>>, ret |-> ans])]
    /\ UNCHANGED rpc
    /\ RMRangeFrame

\* RoleManager.Range returns: the Range over allRoles is exhausted.
RMRangeReturn ==
    /\ rpc = "range"
    /\ rmCall.inner = {} /\ rmCall.users = {}
    /\ rpc' = "idle"
    /\ rmCall' = [rmCall EXCEPT !.done = TRUE]
    /\ RMRangeFrame

\* RoleManager.rebuild: on a cleared role manager, AddLink for every link rangeLinks
\* shows, in any order of the old maps; the set of results.
RECURSIVE Rebuild(_, _)
Rebuild(g, links) ==
    IF links = {} THEN {g}
    ELSE UNION {Rebuild(AddLinkGraph(g, l[1], l[2], NoDomain), links \ {l}) : l \in links}

\* RoleManager.SetMatcher
SetMatcher(mm) ==
    /\ rpc = "idle"
    /\ Cardinality(RangeLinks(Graph)) <= LinkBound(mm)
    /\ LET old == [Graph EXCEPT !.matcher = mm] IN
       \E g \in Rebuild(ClearGraph(old), RangeLinks(old)) : SetGraph(g)
    /\ rmCall' = [op |-> "SetMatcher", done |-> TRUE, links |-> roles, marked |-> redundant,
                  allRoles |-> allRoles]
    /\ NoSearch
    /\ UNCHANGED <<maxHierarchyLevel, policyVars, enforceVars, restVars>>

\* Mutant: the name1 == name2 test of HasLink left out.
ShortcutByNameNever(name1, name2) == FALSE

\* HasLink: the first test of line 629.
ShortcutByName(name1, name2) == name1 = name2

\* HasLink up to the first call of hasLinkHelper: the shortcut, the two getRole
\* calls, the registration of the deferred removeRole calls.
HasLinkBegin(name1, name2) ==
    /\ rpc = "idle"
    /\ LET g == Graph
           asked == IF g.matcher # Nil /\ ~ShortcutByName(name1, name2)
                    THEN [g EXCEPT !.cache = CachePut(@, {<<name1, name2>>})] ELSE g
       IN
       IF ShortcutByName(name1, name2) \/ (g.matcher # Nil /\ RmMatch(g.cache, name1, name2))
       THEN /\ SetGraph(asked)
            /\ rmCall' = [op |-> "HasLink", name1 |-> name1, name2 |-> name2, done |-> TRUE,
                          ret |-> TRUE, before |-> Snapshot, created |-> <<>>]
            /\ NoSearch
       ELSE LET g1 == GetRole(asked, name1)
                g2 == GetRole(g1, name2)
            IN  /\ SetGraph(g2)
                /\ rmCall' = [op |-> "HasLink", name1 |-> name1, name2 |-> name2, done |-> FALSE,
                              ret |-> FALSE, before |-> Snapshot,
                              created |-> (IF Created(asked, name1) THEN <<name1>> ELSE <<>>)
                                          \o (IF Created(g1, name2) THEN <<name2>> ELSE <<>>)]
                /\ rpc' = "search"
                /\ frontier' = {name1}
                /\ level' = maxHierarchyLevel
                /\ expansions' = 0
    /\ UNCHANGED <<maxHierarchyLevel, policyVars, enforceVars, restVars>>

\* Mutants of the recursion bound of hasLinkHelper.
HelperGivesUpLate(lvl, rs) == lvl < 0 \/ rs = {}
NextLevelSame(lvl) == lvl

\* hasLinkHelper: the test that ends the recursion with false.
HelperGivesUp(lvl, rs) == lvl <= 0 \/ rs = {}

\* hasLinkHelper: the level passed to the recursive call.
NextLevel(lvl) == lvl - 1

\* One call of hasLinkHelper(targetName, roles, level).
HasLinkHelperStep ==
    /\ rpc = "search"
    /\ LET g == Graph
           target == rmCall.name2
           IsHit(r) == target = r \/ (g.matcher # Nil /\ RmMatch(g.cache, r, target))
           hits == {r \in frontier : IsHit(r)}
           Keys(rs) == IF g.matcher = Nil THEN {} ELSE {<<r, target>> : r \in {x \in rs : x # target}}
       IN
       IF HelperGivesUp(level, frontier)
       THEN /\ rmCall' = [rmCall EXCEPT !.ret = FALSE]
            /\ rpc' = "defer"
            /\ UNCHANGED <<frontier, level, expansions, matchingFuncCache>>
       ELSE IF hits # {}
       THEN \* the loop over the map returns at the first hit it meets
            \E h \in hits : \E before \in SUBSET (frontier \ hits) :
              /\ matchingFuncCache' = CachePut(g.cache, Keys(before \cup {h}))
              /\ rmCall' = [rmCall EXCEPT !.ret = TRUE]
              /\ rpc' = "defer"
              /\ UNCHANGED <<frontier, level, expansions>>
       ELSE /\ matchingFuncCache' = CachePut(g.cache, Keys(frontier))
            /\ frontier' = UNION {RangeRoles(g, r) : r \in frontier}
            /\ level' = NextLevel(level)
            /\ expansions' = expansions + 1
            /\ UNCHANGED <<rmCall, rpc>>
    /\ UNCHANGED <<allRoles, patternRoles, roles, matched, redundant, matcher>>
    /\ UNCHANGED <<maxHierarchyLevel, policyVars, enforceVars, restVars>>

\* Mutant: only the role created for name1 is removed again.
DeferredRemovalsUserOnly(created, name1, name2) ==
    IF created # <<>> /\ created[1] = name1 THEN <<name1>> ELSE <<>>

\* HasLink: the deferred removeRole calls in the order they run (last registered
\* first): the role created for name2, then the role created for name1.
DeferredRemovals(created, name1, name2) ==
    (IF \E i \in 1..Len(created) : created[i] = name2 THEN <<name2>> ELSE <<>>)
    \o (IF \E i \in 1..Len(created) : created[i] = name1 THEN <<name1>> ELSE <<>>)

RECURSIVE RemoveRoles(_, _)
RemoveRoles(g, names) ==
    IF names = <<>> THEN g ELSE RemoveRoles(RemoveRole(g, Head(names)), Tail(names))

\* HasLink: the return, running the deferred removeRole calls.
HasLinkReturn ==
    /\ rpc = "defer"
    /\ SetGraph(RemoveRoles(Graph, DeferredRemovals(rmCall.created, rmCall.name1, rmCall.name2)))
    /\ rmCall' = [rmCall EXCEPT !.done = TRUE]
    /\ rpc' = "idle"
    /\ frontier' = {}
    /\ level' = 0
    /\ UNCHANGED expansions
    /\ UNCHANGED <<maxHierarchyLevel, policyVars, enforceVars, restVars>>

\* RoleManager.GetRoles
GetRoles(name) ==
    /\ rpc = "idle"
    /\ LET g1 == GetRole(Graph, name) IN
       /\ SetGraph(IF Created(Graph, name) THEN RemoveRole(g1, name) ELSE g1)
       /\ rmCall' = [op |-> "GetRoles", name1 |-> name, done |-> TRUE,
                     ret |-> RangeRoles(g1, name), before |-> Snapshot,
                     created |-> IF Created(Graph, name) THEN <<name>> ELSE <<>>]
    /\ NoSearch
    /\ UNCHANGED <<maxHierarchyLevel, policyVars, enforceVars, restVars>>

\* RoleManager.GetUsers
GetUsers(name) ==
    /\ rpc = "idle"
    /\ LET g1 == GetRole(Graph, name) IN
       /\ SetGraph(IF Created(Graph, name) THEN RemoveRole(g1, name) ELSE g1)
       /\ rmCall' = [op |-> "GetUsers", name1 |-> name, done |-> TRUE,
                     ret |-> RangeUsers(g1, name), before |-> Snapshot,
                     created |-> IF Created(Graph, name) THEN <<name>> ELSE <<>>]
    /\ NoSearch
    /\ UNCHANGED <<maxHierarchyLevel, policyVars, enforceVars, restVars>>

----------------------------------------------------------------------------
(* Concurrent queries on one role manager: HasLink, GetRoles and GetUsers  *)
(* run by several goroutines, interleaved at the operations on the two     *)
(* concurrent maps allRoles and patternRoles.                              *)

Threads   == {"g1", "g2"}
ConcNames == {"book_group_1", "book_group_*"}

NoThread == [pc |-> "idle", op |-> "none", n1 |-> Nil, n2 |-> Nil, phase |-> 0,
             created |-> <<>>, scanned |-> {}, cur |-> Nil, todo |-> <<>>, ret |-> Nil,
             stale |-> {}]

NoPanic     == \A t \in Threads : thr[t].pc # "panic"
AllIdle     == \A t \in Threads : thr[t].pc = "idle"
AllReturned == /\ \A t \in Threads : thr[t].pc \in {"idle", "done"}
               /\ \E t \in Threads : thr[t].pc = "done"

\* The name the getRole call in progress was given.
CurName(t) == IF thr[t].phase = 1 THEN thr[t].n1 ELSE thr[t].n2

\* hasLinkHelper(targetName, roles, level) run to its end: the results it can
\* return, each with the cache it leaves.
RECURSIVE HelperOutcomes(_, _, _, _, _)
HelperOutcomes(g, cache, target, rs, lvl) ==
    LET IsHit(r) == target = r \/ (g.matcher # Nil /\ RmMatch(cache, r, target))
        hits == {r \in rs : IsHit(r)}
        Keys(xs) == IF g.matcher = Nil THEN {} ELSE {<<r, target>> : r \in {x \in xs : x # target}}
    IN  IF HelperGivesUp(lvl, rs) THEN {[ret |-> FALSE, cache |-> cache]}
        ELSE IF hits # {}
        THEN {[ret |-> TRUE, cache |-> CachePut(cache, Keys(b \cup {h}))] :
                 h \in hits, b \in SUBSET (rs \ hits)}
        ELSE HelperOutcomes(g, CachePut(cache, Keys(rs)), target,
                            UNION {RangeRoles(g, r) : r \in rs}, NextLevel(lvl))

\* What follows a getRole call that returned: the second getRole of HasLink, or
\* the query proper.
AfterGetRole(t, rec) ==
    IF rec.op \in {"HasLink", "AddLink"} /\ rec.phase = 1
    THEN [rec EXCEPT !.phase = 2, !.pc = "load", !.scanned = {}, !.cur = Nil]
    ELSE [rec EXCEPT !.pc = "query", !.scanned = {}, !.cur = Nil]

ConcRest == UNCHANGED <<maxHierarchyLevel, matcher, redundant, rmCall, rpc, frontier,
                        level, expansions, policyVars, enforceVars, pathVars, batchVars,
                        storeVars>>

ConcFrame == UNCHANGED roles /\ ConcRest

\* Whether the goroutine holds the *Role its k-th getRole call returned (user / role
\* of lines 604-605, 633-634).
Obtained(rec, k) ==
    LET inGetRole == rec.pc \in {"storePattern", "scan", "loadPattern"}
        running   == rec.pc \in {"load", "store", "storePattern", "scan", "loadPattern", "query"}
    IN
    IF k = 1 THEN running /\ (rec.phase = 2 \/ inGetRole \/ rec.pc = "query")
    ELSE rec.phase = 2 /\ (inGetRole \/ rec.pc = "query")

\* The goroutines after goroutine t took the Role stored under name out of allRoles
\* (Delete, or Store of another Role): the others' pointers to it no longer lead to
\* the Role of that name.
Orphaned(t, name) ==
    [u \in Threads |->
        IF u = t THEN thr[u]
        ELSE [thr[u] EXCEPT !.stale = @ \cup {k \in {1, 2} :
                                Obtained(thr[u], k)
                                /\ (IF k = 1 THEN thr[u].n1 ELSE thr[u].n2) = name}]]

\* The links after the Role stored under name left allRoles: its own roles map
\* goes with it; other Roles keep the name in theirs.
LinksWithout(name) == IF name \in allRoles THEN {e \in roles : e[1] # name} ELSE roles

\* A goroutine calls HasLink(a, b), GetRoles(a) or GetUsers(a): line 629 for
\* HasLink, then the call stands before its first getRole.
ConcBegin(t, op, a, b) ==
    /\ NoPanic
    /\ thr[t].pc = "idle"
    /\ concBefore' = IF AllIdle THEN [allRoles |-> allRoles, patternRoles |-> patternRoles]
                     ELSE concBefore
    /\ IF op = "HasLink"
       THEN /\ matchingFuncCache' = IF matcher # Nil /\ ~ShortcutByName(a, b)
                                    THEN CachePut(matchingFuncCache, {<<a, b>>})
                                    ELSE matchingFuncCache
            /\ IF ShortcutByName(a, b) \/ (matcher # Nil /\ RmMatch(matchingFuncCache, a, b))
               THEN thr' = [thr EXCEPT ![t] = [NoThread EXCEPT !.pc = "done", !.op = op,
                                                              !.n1 = a, !.n2 = b, !.ret = TRUE]]
               ELSE thr' = [thr EXCEPT ![t] = [NoThread EXCEPT !.pc = "load", !.op = op,
                                                              !.n1 = a, !.n2 = b, !.phase = 1]]
       ELSE /\ thr' = [thr EXCEPT ![t] = [NoThread EXCEPT !.pc = "load", !.op = op,
                                                          !.n1 = a, !.phase = 1]]
            /\ UNCHANGED matchingFuncCache
    /\ UNCHANGED <<allRoles, patternRoles, matched>>
    /\ ConcFrame

\* getRole: rm.load(name)
ConcLoad(t) ==
    /\ NoPanic
    /\ thr[t].pc = "load"
    /\ thr' = [thr EXCEPT ![t] = IF CurName(t) \in allRoles THEN AfterGetRole(t, thr[t])
                                 ELSE [thr[t] EXCEPT !.pc = "store"]]
    /\ UNCHANGED <<allRoles, patternRoles, matched, matchingFuncCache, concBefore>>
    /\ ConcFrame

\* getRole: rm.allRoles.Store(name, role)
ConcStore(t) ==
    /\ NoPanic
    /\ thr[t].pc = "store"
    /\ allRoles' = allRoles \cup {CurName(t)}
    /\ roles' = LinksWithout(CurName(t))
    /\ LET rec == [thr[t] EXCEPT !.created = Append(@, CurName(t))] IN
       thr' = [Orphaned(t, CurName(t)) EXCEPT
                  ![t] = IF matcher = Nil THEN AfterGetRole(t, rec)
                         ELSE IF IsPattern(CurName(t)) THEN [rec EXCEPT !.pc = "storePattern"]
                         ELSE [rec EXCEPT !.pc = "scan", !.scanned = {}]]
    /\ UNCHANGED <<patternRoles, matched, matchingFuncCache, concBefore>>
    /\ ConcRest

\* getRole: rm.patternRoles.Store(name, nil) and rangeMatchingRoles, which takes
\* the roles from the range over allRoles itself.
ConcStorePattern(t) ==
    /\ NoPanic
    /\ thr[t].pc = "storePattern"
    /\ LET name == CurName(t)
           others == {n \in allRoles : n # name}
       IN  /\ patternRoles' = patternRoles \cup {name}
           /\ matchingFuncCache' = CachePut(matchingFuncCache, {<<n, name>> : n \in others})
           /\ matched' = matched \cup
                  {<<name, n>> : n \in {x \in others : RmMatch(matchingFuncCache, x, name)}}
    /\ thr' = [thr EXCEPT ![t] = AfterGetRole(t, thr[t])]
    /\ UNCHANGED <<allRoles, concBefore>>
    /\ ConcFrame

\* rangeMatchingPatterns: the range over patternRoles produces its next key
\* (lines 524-526), or has no key left.
ConcScan(t) ==
    /\ NoPanic
    /\ thr[t].pc = "scan"
    /\ LET name == CurName(t)
           left == patternRoles \ thr[t].scanned
       IN  IF left = {}
           THEN /\ thr' = [thr EXCEPT ![t] = AfterGetRole(t, thr[t])]
                /\ UNCHANGED matchingFuncCache
           ELSE \E pattern \in left :
                  IF pattern # name /\ RmMatch(matchingFuncCache, name, pattern)
                  THEN /\ thr' = [thr EXCEPT ![t].pc = "loadPattern", ![t].cur = pattern]
                       /\ matchingFuncCache' = CachePut(matchingFuncCache, {<<name, pattern>>})
                  ELSE /\ thr' = [thr EXCEPT ![t].scanned = @ \cup {pattern}]
                       /\ matchingFuncCache' = IF pattern # name
                                               THEN CachePut(matchingFuncCache, {<<name, pattern>>})
                                               ELSE matchingFuncCache
    /\ UNCHANGED <<allRoles, patternRoles, matched, concBefore>>
    /\ ConcFrame

\* rangeMatchingPatterns: value, _ := rm.allRoles.Load(pattern); fn(value.(*Role)).
\* The type assertion on the nil value of a missing key panics.
ConcLoadPattern(t) ==
    /\ NoPanic
    /\ thr[t].pc = "loadPattern"
    /\ IF thr[t].cur \in allRoles
       THEN /\ matched' = matched \cup {<<thr[t].cur, CurName(t)>>}
            /\ thr' = [thr EXCEPT ![t].pc = "scan", ![t].scanned = @ \cup {thr[t].cur},
                                  ![t].cur = Nil]
       ELSE /\ thr' = [thr EXCEPT ![t].pc = "panic"]
            /\ UNCHANGED matched
    /\ UNCHANGED <<allRoles, patternRoles, matchingFuncCache, concBefore>>
    /\ ConcFrame

\* The query proper: hasLinkHelper, user.getRoles() or role.getUsers(); the
\* deferred removeRole calls are due next.
ConcQuery(t) ==
    /\ NoPanic
    /\ thr[t].pc = "query"
    /\ thr[t].op # "AddLink"
    /\ LET rec == thr[t]
           todo == DeferredRemovals(rec.created, rec.n1, rec.n2)
           next == IF todo = <<>> THEN "done" ELSE "delete"
       IN  CASE rec.op = "HasLink" ->
                  \E out \in HelperOutcomes(Graph, matchingFuncCache, rec.n2, {rec.n1},
                                            maxHierarchyLevel) :
                      /\ matchingFuncCache' = out.cache
                      /\ thr' = [thr EXCEPT ![t] = [rec EXCEPT !.ret = out.ret, !.todo = todo,
                                                              !.pc = next, !.created = <<>>]]
             [] rec.op = "GetRoles" ->
                  /\ thr' = [thr EXCEPT ![t] = [rec EXCEPT !.ret = RangeRoles(Graph, rec.n1),
                                                          !.todo = todo, !.pc = next,
                                                          !.created = <<>>]]
                  /\ UNCHANGED matchingFuncCache
             [] OTHER ->
                  /\ thr' = [thr EXCEPT ![t] = [rec EXCEPT !.ret = RangeUsers(Graph, rec.n1),
                                                          !.todo = todo, !.pc = next,
                                                          !.created = <<>>]]
                  /\ UNCHANGED matchingFuncCache
    /\ UNCHANGED <<allRoles, patternRoles, matched, concBefore>>
    /\ ConcFrame

\* removeRole: loadAndDelete(rm.allRoles, name) and removeMatches
ConcDelete(t) ==
    /\ NoPanic
    /\ thr[t].pc = "delete"
    /\ LET name == Head(thr[t].todo) IN
       /\ allRoles' = allRoles \ {name}
       /\ matched' = IF name \in allRoles
                     THEN {e \in matched : e[1] # name /\ e[2] # name} ELSE matched
       /\ roles' = LinksWithout(name)
       /\ thr' = [Orphaned(t, name) EXCEPT ![t].pc = "deletePattern"]
    /\ UNCHANGED <<patternRoles, matchingFuncCache, concBefore>>
    /\ ConcRest

\* removeRole: rm.patternRoles.Delete(name); then the next deferred call or the return
ConcDeletePattern(t) ==
    /\ NoPanic
    /\ thr[t].pc = "deletePattern"
    /\ patternRoles' = patternRoles \ {Head(thr[t].todo)}
    /\ thr' = [thr EXCEPT ![t].todo = Tail(@),
                          ![t].pc = IF Tail(thr[t].todo) = <<>> THEN "done" ELSE "delete"]
    /\ UNCHANGED <<allRoles, matched, matchingFuncCache, concBefore>>
    /\ ConcFrame

\* A goroutine calls AddLink(name1, name2): the call stands before its first getRole.
ConcAddLinkBegin(t, name1, name2) ==
    /\ NoPanic
    /\ thr[t].pc = "idle"
    /\ Cardinality(roles \cup {<<name1, name2>>}) <= LinkBound(matcher)
    /\ concBefore' = IF AllIdle THEN [allRoles |-> allRoles, patternRoles |-> patternRoles]
                     ELSE concBefore
    /\ thr' = [thr EXCEPT ![t] = [NoThread EXCEPT !.pc = "load", !.op = "AddLink",
                                                   !.n1 = name1, !.n2 = name2, !.phase = 1]]
    /\ UNCHANGED <<allRoles, patternRoles, matched, matchingFuncCache>>
    /\ ConcFrame

\* AddLink, line 611: user.addRole(role) on the Roles the two getRole calls
\* returned; a user that is no longer the Role stored under name1 takes the link
\* with it.
ConcAddRole(t) ==
    /\ NoPanic
    /\ thr[t].pc = "query"
    /\ thr[t].op = "AddLink"
    /\ roles' = IF 1 \in thr[t].stale THEN roles ELSE roles \cup {<<thr[t].n1, thr[t].n2>>}
    /\ thr' = [thr EXCEPT ![t].pc = "done", ![t].ret = TRUE, ![t].created = <<>>]
    /\ UNCHANGED <<allRoles, patternRoles, matched, matchingFuncCache, concBefore>>
    /\ ConcRest

\* Every goroutine has returned; the next round of queries can start.
ConcReset ==
    /\ AllReturned
    /\ thr' = [t \in Threads |-> NoThread]
    /\ UNCHANGED <<allRoles, patternRoles, matched, matchingFuncCache, concBefore>>
    /\ ConcFrame

\* A writer, while no query runs: AddLink
ConcAddLink(name1, name2) ==
    /\ AllIdle
    /\ AddLink(name1, name2, NoDomain)

----------------------------------------------------------------------------
(* Path matcher: pathmatch.Path                                            *)
(* A string is a sequence of symbols: the separator, the prefix, the       *)
(* wildcard, or a letter; len, indexing and slicing are those of the       *)
(* sequence.  The names foo, bar, id, name each stand for one letter.      *)

Seperator == "/"
Prefix    == ":"
Wildcard  == "*"
Letters   == {"foo", "bar"}
Keys      == {"id", "name"}

\* strings.Index(str, c) for a one-symbol c: the 0-based position of the first c, or -1.
Index(str, c) ==
    IF \E i \in 1..Len(str) : str[i] = c
    THEN (CHOOSE i \in 1..Len(str) : str[i] = c /\ \A j \in 1..(i - 1) : str[j] # c) - 1
    ELSE -1

\* strings.Split(str, p.Seperator)
RECURSIVE Split(_)
Split(str) ==
    LET i == Index(str, Seperator) IN
    IF i = -1 THEN <<str>>
    ELSE <<SubSeq(str, 1, i)>> \o Split(SubSeq(str, i + 2, Len(str)))

\* strconv.Itoa, for the numbers a pattern of the model needs.
Itoa(n) == <<"0", "1", "2", "3", "4", "5", "6", "7", "8", "9">>[n + 1]

newStaticSegment(value)         == [type |-> "Static", value |-> value]
newParamSegment(key, equalCheck) == [type |-> "Parameterized", key |-> key, equalCheck |-> equalCheck]
newWildcardSegment(key)         == [type |-> "Wildcard", key |-> key]

\* Compile, lines 66-117: the segments of the split path expression.  A segment
\* that is the wildcard gets the next key $n; a segment made of the prefix and
\* a name is parameterised; a segment without the prefix is static.  (Mixed
\* segments, with text around a key, are not among the expressions modelled.)
RECURSIVE CompileSegments(_, _, _)
CompileSegments(strSegments, unnamed, equalCheck) ==
    IF strSegments = <<>> THEN <<>>
    ELSE LET strSeg == Head(strSegments) IN
         IF strSeg = <<Wildcard>>
         THEN <<newWildcardSegment(<<"$", Itoa(unnamed)>>)>>
              \o CompileSegments(Tail(strSegments), unnamed + 1, equalCheck)
         ELSE IF Index(strSeg, Prefix) # -1
         THEN <<newParamSegment(SubSeq(strSeg, Index(strSeg, Prefix) + 2, Len(strSeg)), equalCheck)>>
              \o CompileSegments(Tail(strSegments), unnamed, equalCheck)
         ELSE <<newStaticSegment(strSeg)>>
              \o CompileSegments(Tail(strSegments), unnamed, equalCheck)

NoSave == [i |-> 0, sIndex |-> 0, searchStart |-> 0, valid |-> FALSE]

\* No Path compiled yet.
NoPath == [path |-> <<>>, Segments |-> <<>>, equalCheck |-> FALSE, save |-> NoSave]

\* Compile(path, EnableEqualityCheck(equalCheck)): the options are applied
\* before the segments are built.
Compile(src, equalCheck) ==
    [path |-> src, Segments |-> CompileSegments(Split(src), 0, equalCheck),
     equalCheck |-> equalCheck, save |-> NoSave]

\* sliceSegment(s, sep, start, offset); a slice bound out of range panics.
sliceSegment(s, start, offset) ==
    IF start > Len(s) \/ offset > Len(s) - start
    THEN [panic |-> TRUE, str |-> <<>>, done |-> TRUE]
    ELSE LET str == SubSeq(s, start + 1, Len(s))
             i   == Index(SubSeq(str, offset + 1, Len(str)), Seperator)
         IN  IF i = -1 THEN [panic |-> FALSE, str |-> str, done |-> TRUE]
             ELSE [panic |-> FALSE, str |-> SubSeq(str, 1, i + offset), done |-> FALSE]

segmentLen(str, done) == IF done THEN Len(str) ELSE Len(str) + 1

Multiple(seg) == seg.type = "Wildcard"

EmptyMatch == [k \in {} |-> <<>>]

\* Mutant: set keeps the value a key already has.
DraftSetKeepsFirst(capture, match, key, value) ==
    IF ~capture \/ key \in DOMAIN match THEN match
    ELSE [k \in DOMAIN match \cup {key} |-> IF k = key THEN value ELSE match[k]]

\* Mutant: a static segment matches any input segment.
StaticMatchesAny(seg, str) == TRUE

\* staticSegment.Match, line 274
StaticMatches(seg, str) == str = seg.value

\* matchDraft.set(key, value)
DraftSet(capture, match, key, value) ==
    IF ~capture THEN match
    ELSE [k \in DOMAIN match \cup {key} |-> IF k = key THEN value ELSE match[k]]

\* paramSegment.Match, line 298: the segment fails on a value other than the one
\* the draft holds for its key.
ParamRejects(seg, match, str) ==
    seg.equalCheck /\ seg.key \in DOMAIN match /\ str # match[seg.key]

\* ISegment.Match(m, s): whether the segment matches, and the draft's map after it.
SegMatch(seg, capture, match, str) ==
    CASE seg.type = "Static" ->
            [ok |-> StaticMatches(seg, str), match |-> match]
      [] seg.type = "Parameterized" ->
            IF ParamRejects(seg, match, str) THEN [ok |-> FALSE, match |-> match]
            ELSE [ok |-> TRUE, match |-> DraftSet(capture, match, seg.key, str)]
      [] OTHER ->
            [ok |-> TRUE, match |-> DraftSet(capture, match, seg.key, str)]

\* The result of getMatch: nil, a panic, or the draft's map; with p.save as the
\* call leaves it.
MatchNil      == [kind |-> "nil", match |-> EmptyMatch]
MatchPanic    == [kind |-> "panic", match |-> EmptyMatch]
MatchOf(match) == [kind |-> "match", match |-> match]

\* Path.getMatch, line 195.
Leftover(segs, i, done) == Len(segs) - 1 = i /\ ~done

\* Path.getMatch, the loop of lines 157-198 from iteration i on, and lines 199-202.
RECURSIVE getMatchLoop(_, _, _, _, _, _, _, _)
getMatchLoop(segs, s, capture, i, sIndex, searchStart, match, save) ==
    IF i >= Len(segs)
    THEN [ret |-> IF Len(s) # sIndex THEN MatchNil ELSE MatchOf(match), save |-> save]
    ELSE
      LET seg == segs[i + 1]
          sl  == sliceSegment(s, sIndex, searchStart)
      IN
      IF sl.panic THEN [ret |-> MatchPanic, save |-> save]
      ELSE IF sl.done /\ Len(segs) - 1 # i THEN [ret |-> MatchNil, save |-> save]
      ELSE IF Multiple(seg) /\ Len(segs) - 1 = i
      THEN [ret |-> MatchOf(DraftSet(capture, match, seg.key, SubSeq(s, sIndex + 1, Len(s)))),
            save |-> save]
      ELSE
        LET save1 == IF ~Multiple(seg) THEN save
                     ELSE IF save.valid /\ save.i = i
                     THEN [save EXCEPT !.searchStart = segmentLen(sl.str, sl.done)]
                     ELSE [i |-> i, sIndex |-> sIndex,
                           searchStart |-> segmentLen(sl.str, sl.done), valid |-> TRUE]
            m == SegMatch(seg, capture, match, sl.str)
        IN
        IF ~m.ok /\ save1.valid
        THEN getMatchLoop(segs, s, capture, save1.i, save1.sIndex, save1.searchStart, match, save1)
        ELSE IF ~m.ok THEN [ret |-> MatchNil, save |-> save1]
        ELSE IF Leftover(segs, i, sl.done) THEN [ret |-> MatchNil, save |-> save1]
        ELSE getMatchLoop(segs, s, capture, i + 1, sIndex + segmentLen(sl.str, sl.done), 0,
                          m.match, save1)

\* Path.getMatch(s, capture)
getMatch(p, s, capture) == getMatchLoop(p.Segments, s, capture, 0, 0, 0, EmptyMatch, p.save)

\* The path expressions and the inputs of the model: n segments, each after a separator.
SegSources == {<<l>> : l \in Letters} \cup {<<Prefix, k>> : k \in Keys} \cup {<<Wildcard>>}

RECURSIVE PathsOf(_, _)
PathsOf(segs, n) ==
    IF n = 0 THEN {<<>>}
    ELSE {<<Seperator>> \o sg \o rest : sg \in segs, rest \in PathsOf(segs, n - 1)}

PatternStrings == UNION {PathsOf(SegSources, n) : n \in 1..MaxPatternSegs}
InputStrings   == UNION {PathsOf({<<l>> : l \in Letters}, n) : n \in 1..MaxInputSegs}

PathFrame == UNCHANGED <<policyVars, enforceVars, rmVars, concVars, batchVars, storeVars>>

\* pathmatch.Compile(src, EnableEqualityCheck(equalCheck))
PathCompile(src, equalCheck) ==
    /\ path = NoPath
    /\ path' = Compile(src, equalCheck)
    /\ pcall' = NoCall
    /\ PathFrame

\* Path.Match(s), on a Path no call was made on yet
PathMatch(s) ==
    /\ path # NoPath
    /\ pcall = NoCall
    /\ LET out == getMatch(path, s, FALSE \/ path.equalCheck) IN
       /\ path' = [path EXCEPT !.save = out.save]
       /\ pcall' = [op |-> "Match", s |-> s,
                    ret |-> IF out.ret = MatchPanic THEN "panic"
                            ELSE IF out.ret # MatchNil THEN "true" ELSE "false"]
    /\ PathFrame

\* Path.FindSubmatch(s), on a Path no call was made on yet
PathFindSubmatch(s) ==
    /\ path # NoPath
    /\ pcall = NoCall
    /\ LET out == getMatch(path, s, TRUE) IN
       /\ path' = [path EXCEPT !.save = out.save]
       /\ pcall' = [op |-> "FindSubmatch", s |-> s, ret |-> out.ret]
    /\ PathFrame

\* The path expressions and inputs used when one Path serves several calls.
SeqPatternStrings ==
    UNION {PathsOf({<<"foo">>, <<Prefix, "id">>, <<Wildcard>>}, n) : n \in 1..MaxSeqSegs}
SeqInputStrings == UNION {PathsOf({<<l>> : l \in Letters}, n) : n \in 1..MaxSeqSegs}

\* Path.Match(s), on a Path that served calls before: p.save is as they left it
PathMatchAgain(s) ==
    /\ path # NoPath
    /\ pcall # NoCall
    /\ LET out == getMatch(path, s, FALSE \/ path.equalCheck) IN
       /\ path' = [path EXCEPT !.save = out.save]
       /\ pcall' = [op |-> "Match", s |-> s,
                    ret |-> IF out.ret = MatchPanic THEN "panic"
                            ELSE IF out.ret # MatchNil THEN "true" ELSE "false"]
    /\ PathFrame

\* Path.FindSubmatch(s), on a Path that served calls before
PathFindSubmatchAgain(s) ==
    /\ path # NoPath
    /\ pcall # NoCall
    /\ LET out == getMatch(path, s, TRUE) IN
       /\ path' = [path EXCEPT !.save = out.save]
       /\ pcall' = [op |-> "FindSubmatch", s |-> s, ret |-> out.ret]
    /\ PathFrame

----------------------------------------------------------------------------
(* Enforcer: Enforce and Filter over the matcher driver *)

\* Enforcer.Enforce -> enforce: the code before RangeMatchesWithContext is entered.
EnforceBegin(m, e, req) ==
    /\ pc = "idle"
    /\ pc' = "range"
    /\ ctx' = [matcher |-> m, effector |-> e, req |-> req, mode |-> "enforce"]
    /\ remaining' = DOMAIN ruleMap
    /\ visited' = <<>>
    /\ effects' = <<>>
    /\ matches' = <<>>
    /\ res' = Indeterminate
    /\ eftErr' = Nil
    /\ rangeErr' = Nil
    /\ calls' = <<>>
    /\ call' = [op |-> "Enforce", done |-> FALSE]
    /\ emitted' = <<>>
    /\ prevFilter' = NoPrev
    /\ UNCHANGED <<ruleMap, rmVars, restVars>>

\* Enforcer.Filter -> FilterWithContext: the code before RangeMatchesWithContext is entered.
FilterBegin(m, req) ==
    /\ pc = "idle"
    /\ pc' = "range"
    /\ ctx' = [matcher |-> m, effector |-> AllowOverride, req |-> req, mode |-> "filter"]
    /\ remaining' = DOMAIN ruleMap
    /\ visited' = <<>>
    /\ effects' = <<>>
    /\ matches' = <<>>
    /\ res' = Indeterminate
    /\ eftErr' = Nil
    /\ rangeErr' = Nil
    /\ calls' = <<>>
    /\ call' = [op |-> "Filter", done |-> FALSE]
    /\ emitted' = <<>>
    /\ prevFilter' = IF prevFilter.mode = "filter" /\ prevFilter.matcher = m /\ prevFilter.req = req
                     THEN prevFilter ELSE NoPrev
    /\ UNCHANGED <<ruleMap, rmVars, restVars>>

\* Mutants of the visitor's return value: the test on res inverted; no short-circuit.
EnforceVisitorInverted(r, e) == ~(e # Nil \/ r = Indeterminate)
EnforceVisitorNeverStops(r, e) == e = Nil

\* The visitor of enforce tells the driver to go on iff there is neither an
\* effector error nor a decision.
EnforceVisitorContinues(r, e) == ~(e # Nil \/ r # Indeterminate)

\* The visitor enforce hands to RangeMatches, called on a matching rule.
EnforceVisitor(rule) ==
    LET effs  == Append(effects, GetEft(rule))
        mtchs == Append(matches, rule)
    IN  /\ effects' = effs
        /\ matches' = mtchs
        /\ \E out \in MergeEffects(ctx.effector, effs, mtchs, FALSE) :
              /\ res' = out.res
              /\ eftErr' = out.err
              /\ calls' = Append(calls, [complete |-> FALSE, effects |-> effs, matches |-> mtchs,
                                         res |-> out.res, err |-> out.err,
                                         nvisited |-> Len(visited) + 1])
              /\ pc' = IF EnforceVisitorContinues(out.res, out.err) THEN "range" ELSE "stop"
        /\ UNCHANGED rangeErr

\* Mutant: the Filter visitor stops the iteration after the first match.
FilterVisitorStops(rule) ==
    /\ matches' = Append(matches, rule)
    /\ pc' = "stop"
    /\ UNCHANGED <<effects, res, eftErr, calls, rangeErr>>

\* The visitor FilterWithContext hands to RangeMatches: collect, always go on.
FilterVisitor(rule) ==
    /\ matches' = Append(matches, rule)
    /\ pc' = "range"
    /\ UNCHANGED <<effects, res, eftErr, calls, rangeErr>>

\* One iteration of the matcher driver (Model.RangeMatches -> IMatcher.RangeMatches):
\* take the next rule of the table in the map's order, evaluate the expression,
\* call the visitor on a match, give up on an evaluation error.
RangeStep ==
    /\ pc = "range"
    /\ \E k \in remaining :
         LET rule == ruleMap[k]
             v    == EvalMatcher(ctx.matcher, ctx.req, rule)
         IN  /\ remaining' = remaining \ {k}
             /\ visited' = Append(visited, rule)
             /\ CASE v = "error" ->
                        /\ rangeErr' = Err
                        /\ pc' = "stop"
                        /\ UNCHANGED <<effects, matches, res, eftErr, calls>>
                  [] v = "false" ->
                        UNCHANGED <<pc, effects, matches, res, eftErr, calls, rangeErr>>
                  [] OTHER ->
                        IF ctx.mode = "enforce" THEN EnforceVisitor(rule) ELSE FilterVisitor(rule)
    /\ UNCHANGED <<ruleMap, call, emitted, ctx, prevFilter, rmVars, restVars>>

RangeReturned == pc = "stop" \/ (pc = "range" /\ remaining = {})

\* The boolean enforce returns for a final decision.
EnforceResult(r) == r = Allow

\* Mutant: the closing MergeEffects call is made whatever the decision.
NeedsCompleteAlways(r) == TRUE

\* enforce asks the effector to commit (complete=true) iff there is no decision yet.
NeedsComplete(r) == r = Indeterminate

\* Mutant: the driver's error is not looked at.
DriverFailedNever(rErr) == FALSE

\* enforce, line 336: the driver reported an error.
DriverFailed(rErr) == rErr # Nil

\* enforce: the code after RangeMatchesWithContext returned.
EnforceReturn ==
    /\ ctx.mode = "enforce"
    /\ RangeReturned
    /\ pc' = "idle"
    /\ IF DriverFailed(rangeErr)
       THEN /\ call' = [op |-> "Enforce", done |-> TRUE, ret |-> FALSE, err |-> rangeErr]
            /\ UNCHANGED <<res, calls>>
       ELSE IF eftErr # Nil
       THEN /\ call' = [op |-> "Enforce", done |-> TRUE, ret |-> FALSE, err |-> rangeErr]
            /\ UNCHANGED <<res, calls>>
       ELSE IF NeedsComplete(res)
       THEN \E out \in MergeEffects(ctx.effector, effects, matches, TRUE) :
              /\ res' = out.res
              /\ calls' = Append(calls, [complete |-> TRUE, effects |-> effects, matches |-> matches,
                                         res |-> out.res, err |-> out.err,
                                         nvisited |-> Len(visited)])
              /\ call' = [op |-> "Enforce", done |-> TRUE, ret |-> EnforceResult(out.res), err |-> Nil]
       ELSE /\ call' = [op |-> "Enforce", done |-> TRUE, ret |-> EnforceResult(res), err |-> Nil]
            /\ UNCHANGED <<res, calls>>
    /\ UNCHANGED <<ruleMap, emitted, ctx, remaining, visited, effects, matches, eftErr, rangeErr, prevFilter, rmVars, restVars>>

\* FilterWithContext: return rules, err.
FilterReturn ==
    /\ ctx.mode = "filter"
    /\ RangeReturned
    /\ pc' = "idle"
    /\ call' = [op |-> "Filter", done |-> TRUE, ret |-> matches, err |-> rangeErr]
    /\ prevFilter' = IF rangeErr = Nil
                     THEN [mode |-> "filter", matcher |-> ctx.matcher, req |-> ctx.req,
                           rules |-> {matches[i] : i \in 1..Len(matches)}]
                     ELSE NoPrev
    /\ UNCHANGED <<ruleMap, emitted, ctx, remaining, visited, effects, matches, res, eftErr, rangeErr, calls, rmVars, restVars>>

----------------------------------------------------------------------------
(* Specifications *)

vars == <<policyVars, enforceVars, rmVars, restVars>>

\* NewPolicy, and no Enforce / Filter call made yet.
InitPolicy ==
    /\ ruleMap = EmptyMap
    /\ call = NoCall
    /\ emitted = <<>>
    /\ pc = "idle"
    /\ ctx = NoCtx
    /\ remaining = {}
    /\ visited = <<>>
    /\ effects = <<>>
    /\ matches = <<>>
    /\ res = Indeterminate
    /\ eftErr = Nil
    /\ rangeErr = Nil
    /\ calls = <<>>
    /\ prevFilter = NoPrev

\* NewRoleManager(lvl) / newRoleManagerWithMatchingFunc(lvl, mm)
NewRoleManager(lvl, mm) ==
    /\ allRoles = {}
    /\ patternRoles = {}
    /\ roles = {}
    /\ matched = {}
    /\ redundant = {}
    /\ matchingFuncCache = {}
    /\ matcher = mm
    /\ maxHierarchyLevel = lvl
    /\ rmCall = NoCall
    /\ rpc = "idle"
    /\ frontier = {}
    /\ level = 0
    /\ expansions = 0

InitPath == path = NoPath /\ pcall = NoCall

\* SetAdapter: a new Enforcer's StorageController has autosave disabled.
InitBatch == autosave = FALSE /\ batch = NoCall

\* No goroutine runs a query.
InitConc ==
    /\ thr = [t \in Threads |-> NoThread]
    /\ concBefore = [allRoles |-> {}, patternRoles |-> {}]

\* An Enforcer built without an adapter: the no-op adapter, storage disabled.
InitStore ==
    /\ adapter = NoopAdapter
    /\ sc = [adapter |-> NoopAdapter, enabled |-> FALSE]
    /\ ecall = NoCall

InitRest == InitConc /\ InitPath /\ InitBatch /\ InitStore

Init == InitPolicy /\ NewRoleManager(MaxLevel, Nil) /\ InitRest

InitRM == /\ InitPolicy /\ InitRest
          /\ \E lvl \in Levels, mm \in SubMatchers : NewRoleManager(lvl, mm)

NextPolicy ==
    \/ \E r \in Rules : AddRule(r)
    \/ \E r \in Rules : RemoveRule(r)
    \/ Clear

\* The rule table with Range calls.
NextPolicyRange ==
    \/ \E r \in Rules : AddRule(r)
    \/ \E r \in Rules : RemoveRule(r)
    \/ Clear
    \/ PolicyRangeBegin
    \/ PolicyRangeStep
    \/ PolicyRangeReturn

NextEnforce ==
    \/ \E r \in Rules : AddRule(r)
    \/ \E r \in Rules : RemoveRule(r)
    \/ \E m \in Matchers, e \in Effectors, req \in Requests : EnforceBegin(m, e, req)
    \/ \E m \in Matchers, req \in Requests : FilterBegin(m, req)
    \/ RangeStep
    \/ EnforceReturn
    \/ FilterReturn

NextRM ==
    \/ \E a \in Names, b \in Names : AddLink(a, b, NoDomain)
    \/ \E a \in Names, b \in Names : DeleteLink(a, b, NoDomain)
    \/ \E mm \in SubMatchers : SetMatcher(mm)
    \/ RMClear
    \/ \E a \in Names, b \in Names : HasLinkBegin(a, b)
    \/ HasLinkHelperStep
    \/ HasLinkReturn
    \/ \E a \in Names : GetRoles(a)
    \/ \E a \in Names : GetUsers(a)

SpecPolicy  == Init /\ [][NextPolicy]_vars
SpecEnforce == Init /\ [][NextEnforce]_vars
SpecPolicyRange == Init /\ [][NextPolicyRange]_vars
SpecRM      == InitRM /\ [][NextRM]_vars

\* The role manager with no sub-matcher ever installed.
InitRMPlain == InitPolicy /\ InitRest /\ \E lvl \in Levels : NewRoleManager(lvl, Nil)

NextRMPlain ==
    \/ \E a \in Names, b \in Names : AddLink(a, b, NoDomain)
    \/ \E a \in Names, b \in Names : DeleteLink(a, b, NoDomain)
    \/ SetMatcher(Nil)
    \/ RMClear
    \/ \E a \in Names, b \in Names : HasLinkBegin(a, b)
    \/ HasLinkHelperStep
    \/ HasLinkReturn
    \/ \E a \in Names : GetRoles(a)
    \/ \E a \in Names : GetUsers(a)

SpecRMPlain     == InitRMPlain /\ [][NextRMPlain]_vars

\* A HasLink call runs to completion on the calling thread.
SpecRMPlainFair == SpecRMPlain /\ WF_vars(HasLinkHelperStep) /\ WF_vars(HasLinkReturn)

\* The role manager's writers, with links marked redundant_role.
NextRMLinks ==
    \/ \E a \in Names, b \in Names, dom \in Domains : AddLink(a, b, dom)
    \/ \E a \in Names, b \in Names, dom \in Domains : DeleteLink(a, b, dom)
    \/ \E mm \in SubMatchers : SetMatcher(mm)
    \/ RMClear

\* The role manager's links, added and deleted with and without the redundant mark,
\* and visited by Range.
NextRMRange ==
    \/ \E a \in RangeNames, b \in RangeNames, dom \in Domains : AddLink(a, b, dom)
    \/ \E a \in RangeNames, b \in RangeNames, dom \in Domains : DeleteLink(a, b, dom)
    \/ RMRangeBegin
    \/ RMRangeUser
    \/ RMRangeLink
    \/ RMRangeReturn

SpecRMRange == Init /\ [][NextRMRange]_vars

InitRMLinks == /\ InitPolicy /\ InitRest
               /\ \E mm \in SubMatchers : NewRoleManager(MaxLevel, mm)

SpecRMLinks == InitRMLinks /\ [][NextRMLinks]_vars

\* Batches of rule changes, with autosave switched between them.
NextBatch ==
    \/ \E enable \in BOOLEAN : SetAutosave(enable)
    \/ \E op \in BatchOps, rules \in Batches : BatchBegin(op, rules)
    \/ BatchStep
    \/ BatchReturn

SpecBatch == Init /\ [][NextBatch]_vars

\* Enforcers built over the model, loading and saving the policy.
NextStore ==
    \/ \E arg \in AdapterArgs, opts \in OptionLists : NewEnforcer(arg, opts)
    \/ SavePolicy
    \/ LoadPolicyBegin
    \/ LoadPolicyStep
    \/ LoadPolicyFail
    \/ LoadPolicyReturn

SpecStore == Init /\ [][NextStore]_vars

\* One Path: compiled, then matched once.
NextPath ==
    \/ \E src \in PatternStrings, eq \in BOOLEAN : PathCompile(src, eq)
    \/ \E str \in InputStrings : PathMatch(str)
    \/ \E str \in InputStrings : PathFindSubmatch(str)

SpecPath == Init /\ [][NextPath]_vars

\* One Path: compiled, then matched any number of times.
NextPathSeq ==
    \/ \E src \in SeqPatternStrings : PathCompile(src, FALSE)
    \/ \E str \in SeqInputStrings : PathMatch(str)
    \/ \E str \in SeqInputStrings : PathFindSubmatch(str)
    \/ \E str \in SeqInputStrings : PathMatchAgain(str)
    \/ \E str \in SeqInputStrings : PathFindSubmatchAgain(str)

SpecPathSeq == Init /\ [][NextPathSeq]_vars

\* Concurrent queries, with a writer only while no query runs.
InitConcRM == /\ InitPolicy /\ InitRest
              /\ \E mm \in SubMatchers : NewRoleManager(MaxLevel, mm)

NextConc ==
    \/ \E a \in Names, b \in Names : ConcAddLink(a, b)
    \/ \E t \in Threads, a \in ConcNames, b \in ConcNames : ConcBegin(t, "HasLink", a, b)
    \/ \E t \in Threads, a \in ConcNames : ConcBegin(t, "GetRoles", a, Nil)
    \/ \E t \in Threads, a \in ConcNames : ConcBegin(t, "GetUsers", a, Nil)
    \/ \E t \in Threads : ConcLoad(t)
    \/ \E t \in Threads : ConcStore(t)
    \/ \E t \in Threads : ConcStorePattern(t)
    \/ \E t \in Threads : ConcScan(t)
    \/ \E t \in Threads : ConcLoadPattern(t)
    \/ \E t \in Threads : ConcQuery(t)
    \/ \E t \in Threads : ConcDelete(t)
    \/ \E t \in Threads : ConcDeletePattern(t)
    \/ ConcReset

\* AddLink running beside the queries, no sub-matcher installed.
NextConcLink ==
    \/ \E t \in Threads, a \in ConcNames, b \in ConcNames : ConcAddLinkBegin(t, a, b)
    \/ \E t \in Threads, a \in ConcNames, b \in ConcNames : ConcBegin(t, "HasLink", a, b)
    \/ \E t \in Threads, a \in ConcNames : ConcBegin(t, "GetRoles", a, Nil)
    \/ \E t \in Threads, a \in ConcNames : ConcBegin(t, "GetUsers", a, Nil)
    \/ \E t \in Threads : ConcLoad(t)
    \/ \E t \in Threads : ConcStore(t)
    \/ \E t \in Threads : ConcQuery(t)
    \/ \E t \in Threads : ConcAddRole(t)
    \/ \E t \in Threads : ConcDelete(t)
    \/ \E t \in Threads : ConcDeletePattern(t)
    \/ ConcReset

SpecConcLink == Init /\ [][NextConcLink]_vars

SpecConc == InitConcRM /\ [][NextConc]_vars

----------------------------------------------------------------------------
(* Properties of Enforce and Filter (checked under SpecEnforce) *)

SeqSet(q) == {q[i] : i \in 1..Len(q)}

\* The rules of the table on which the call's matcher evaluates to true.
MatchSet == {ruleMap[k] : k \in {x \in DOMAIN ruleMap :
                                   EvalMatcher(ctx.matcher, ctx.req, ruleMap[x]) = "true"}}

EnforceDone == call.op = "Enforce" /\ call.done
FilterDone  == call.op = "Filter" /\ call.done

\* C1: under the deny-overrides rule some(allow) && !some(deny), an Enforce call on
\* a table holding at least one rule that matches the request and has effect deny
\* returns false, whatever the order in which the table was iterated and however
\* many matching allow rules it holds.
C1_DenyOverrides ==
    (EnforceDone /\ ctx.effector = AllowAndDeny
        /\ \E rule \in MatchSet : GetEft(rule) = Deny)
    => call.ret = FALSE

\* C1 witness: two matching allow rules were visited before the matching deny rule.
C1_Witness ==
    /\ EnforceDone /\ ctx.effector = AllowAndDeny /\ call.err = Nil
    /\ Len(matches) = 3
    /\ GetEft(matches[1]) = Allow /\ GetEft(matches[2]) = Allow /\ GetEft(matches[3]) = Deny
    /\ call.ret = FALSE

\* C2 (first half): a Filter call that returns without error returns exactly the
\* rules on which the matcher is true, each once, having visited every rule.
C2_FilterExact ==
    (FilterDone /\ call.err = Nil)
    => /\ SeqSet(call.ret) = MatchSet
       /\ Len(call.ret) = Cardinality(MatchSet)
       /\ Len(visited) = Cardinality(DOMAIN ruleMap)

\* C2 (second half): when a Filter call returns and the previous Filter call for
\* the same matcher and request was followed by additions only, its result holds
\* the previous result and is not smaller.
C2_FilterMonotoneStep ==
    (ctx.mode = "filter" /\ pc # "idle" /\ pc' = "idle" /\ call'.err = Nil
        /\ prevFilter.mode = "filter")
    => /\ prevFilter.rules \subseteq SeqSet(call'.ret)
       /\ Cardinality(prevFilter.rules) <= Len(call'.ret)

\* C2: Filter returns exactly the matching rules, and additions to the table never
\* make the result for the same request smaller.
C2_Filter == []C2_FilterExact /\ [][C2_FilterMonotoneStep]_vars

\* C2 witness: a second Filter for the same request, after an addition, is about to
\* return more rules than the first did.
C2_Witness ==
    /\ ctx.mode = "filter" /\ pc = "range" /\ remaining = {}
    /\ prevFilter.mode = "filter"
    /\ Cardinality(prevFilter.rules) >= 1
    /\ Len(matches) > Cardinality(prevFilter.rules)
    /\ Len(matches) < Cardinality(DOMAIN ruleMap)

\* The complete=false calls that returned a decision.
DecidedCalls == {i \in 1..Len(calls) : ~calls[i].complete /\ calls[i].res # Indeterminate}

\* C3: once a MergeEffects call with complete=false has returned a decision other
\* than Indeterminate, the driver has stopped: no rule is evaluated after it and
\* MergeEffects is not called again; Enforce returns true iff that decision is
\* Allow (and the call returned it without an error).
C3_ShortCircuit ==
    \A i \in DecidedCalls :
        /\ i = Len(calls)
        /\ Len(visited) = calls[i].nvisited
        /\ pc \in {"stop", "idle"}
        /\ EnforceDone => (call.ret = (calls[i].res = Allow /\ calls[i].err = Nil))

\* C3 witness: an Enforce call returned true on a decision taken while rules of the
\* table were still unvisited.
C3_Witness ==
    /\ EnforceDone /\ call.ret = TRUE
    /\ DecidedCalls # {}
    /\ remaining # {}
    /\ Len(calls) >= 2

CompleteCalls == {i \in 1..Len(calls) : calls[i].complete}

\* Rule iteration ran to its end with no decision: every rule was produced, the
\* driver reported no error and every visitor call asked to go on.
IterationExhaustedUndecided ==
    /\ remaining = {}
    /\ rangeErr = Nil
    /\ \A i \in 1..Len(calls) : ~calls[i].complete =>
            (calls[i].res = Indeterminate /\ calls[i].err = Nil)

\* C4: in an Enforce call that returns a nil error, MergeEffects is called with
\* complete=true at most once, and exactly when rule iteration ran to its end
\* without a decision; that call is the last one and receives every matching rule
\* of the table with, position by position, its effect.
C4_CompleteCall ==
    (EnforceDone /\ call.err = Nil)
    => /\ Cardinality(CompleteCalls) <= 1
       /\ (CompleteCalls # {}) <=> IterationExhaustedUndecided
       /\ \A i \in CompleteCalls :
            /\ i = Len(calls)
            /\ SeqSet(calls[i].matches) = MatchSet
            /\ Len(calls[i].matches) = Cardinality(MatchSet)
            /\ Len(calls[i].effects) = Len(calls[i].matches)
            /\ \A j \in 1..Len(calls[i].matches) :
                    calls[i].effects[j] = GetEft(calls[i].matches[j])
            /\ i > 1 => calls[i].matches = calls[i-1].matches

\* C4 witness: two complete=false calls, then the complete=true call.
C4_Witness ==
    /\ EnforceDone /\ call.err = Nil
    /\ Len(calls) = 3
    /\ calls[3].complete

\* The matcher driver met an evaluation error on one of the rules it took.
EvalErrorOccurred ==
    \E i \in 1..Len(visited) : EvalMatcher(ctx.matcher, ctx.req, visited[i]) = "error"

\* C17: an Enforce call in which the matcher driver reported an error returns
\* (false, that error); it never returns true, the decision it holds is still
\* Indeterminate, and MergeEffects was not called with complete=true.
C17_DriverError ==
    (EnforceDone /\ EvalErrorOccurred) =>
        /\ call.ret = FALSE
        /\ call.err = Err
        /\ call.err = rangeErr
        /\ res = Indeterminate
        /\ CompleteCalls = {}

\* The error came after two rules had matched without a decision and with a rule
\* still to come.
C17_Witness ==
    /\ EnforceDone
    /\ EvalErrorOccurred
    /\ Len(calls) = 2
    /\ Len(visited) = 3

----------------------------------------------------------------------------
(* Properties of the rule table (checked under SpecPolicy) *)

\* One AddRule call: true and one RULE_ADDED when the fingerprint is new, else
\* false, no event, table unchanged.
C5_AddRuleStep ==
    (call'.op = "AddRule")
    => LET r == call'.rule
           key == Hash(r)
       IN  IF key \in DOMAIN ruleMap
           THEN call'.ret = FALSE /\ call'.err = Nil /\ emitted' = <<>> /\ ruleMap' = ruleMap
           ELSE /\ call'.ret = TRUE /\ call'.err = Nil
                /\ emitted' = <<[evt |-> "RULE_ADDED", rule |-> r]>>
                /\ DOMAIN ruleMap' = DOMAIN ruleMap \cup {key}
                /\ ruleMap'[key] = r
                /\ \A k \in DOMAIN ruleMap : ruleMap'[k] = ruleMap[k]

\* AddRule(r) directly after AddRule(r): the second call emits nothing and changes
\* nothing, so the pair emits one RULE_ADDED at most (one iff the first was new).
C5_AddTwiceStep ==
    (call.op = "AddRule" /\ call'.op = "AddRule" /\ call'.rule = call.rule)
    => /\ call'.ret = FALSE /\ emitted' = <<>> /\ ruleMap' = ruleMap
       /\ Len(emitted) = (IF call.ret THEN 1 ELSE 0)

\* C5: AddRule inserts and emits RULE_ADDED exactly when the fingerprint is not
\* stored; a repeated AddRule(r) is a no-op; the table never holds a rule under a
\* key other than its fingerprint.
C5_AddRule ==
    /\ [][C5_AddRuleStep /\ C5_AddTwiceStep]_vars
    /\ [](\A k \in DOMAIN ruleMap : Hash(ruleMap[k]) = k)

\* C5 witness: an AddRule of a rule already stored returned false.
C5_Witness ==
    /\ call.op = "AddRule" /\ call.ret = FALSE /\ emitted = <<>>
    /\ Hash(call.rule) \in DOMAIN ruleMap
    /\ Cardinality(DOMAIN ruleMap) >= 2

\* One RemoveRule call on a table that does not hold the rule.
C6_RemoveAbsentStep ==
    (call'.op = "RemoveRule" /\ Hash(call'.rule) \notin DOMAIN ruleMap)
    => call'.ret = FALSE /\ call'.err = Nil /\ emitted' = <<>> /\ ruleMap' = ruleMap

\* C6: RemoveRule(r) on a table that does not hold r returns false without error,
\* emits no event and leaves the table unchanged.
C6_RemoveAbsent == [][C6_RemoveAbsentStep]_vars

\* C6 witness: a RemoveRule of an absent rule returned false on a non-empty table.
C6_Witness ==
    /\ call.op = "RemoveRule" /\ call.ret = FALSE /\ call.err = Nil /\ emitted = <<>>
    /\ Hash(call.rule) \notin DOMAIN ruleMap
    /\ ruleMap # EmptyMap

----------------------------------------------------------------------------
(* Properties of the role manager: SpecRM, and SpecRMPlainFair for C10.    *)

HasLinkDone == rmCall.op = "HasLink" /\ rmCall.done
QueryDone   == rmCall.op \in {"HasLink", "GetRoles", "GetUsers"} /\ rmCall.done

\* C7: HasLink(x, x) returns true, in one step and without creating a role: the
\* call never enters the search, creates nothing and leaves allRoles as it was,
\* whatever the graph, the sub-matcher and maxHierarchyLevel.
C7_HasLinkReflexive ==
    (rmCall.op = "HasLink" /\ rmCall.name1 = rmCall.name2)
    => /\ rmCall.done /\ rmCall.ret = TRUE
       /\ rmCall.created = <<>>
       /\ allRoles = rmCall.before.allRoles
       /\ patternRoles = rmCall.before.patternRoles

\* C7 witness: HasLink(x, x) returned true with maxHierarchyLevel <= 0, no
\* sub-matcher and no role named x.
C7_Witness ==
    /\ HasLinkDone /\ rmCall.name1 = rmCall.name2 /\ rmCall.ret = TRUE
    /\ maxHierarchyLevel <= 0 /\ matcher = Nil
    /\ rmCall.name1 \notin allRoles
    /\ roles # {}

\* C8: when HasLink, GetRoles or GetUsers has returned, the names in allRoles, the
\* names in patternRoles and the links are those of before the call.
C8_QueriesPure ==
    QueryDone => /\ allRoles = rmCall.before.allRoles
                 /\ patternRoles = rmCall.before.patternRoles
                 /\ roles = rmCall.before.roles

\* C8 witness: a HasLink call with a sub-matcher installed created roles for both
\* of its arguments (one of them a pattern) and has returned.
C8_Witness ==
    /\ HasLinkDone /\ matcher # Nil
    /\ Len(rmCall.created) = 2
    /\ \E i \in 1..2 : IsPattern(rmCall.created[i])
    /\ allRoles # {}

\* The names reachable from a by at most k links (none when k < 0).
RECURSIVE ReachWithin(_, _, _)
ReachWithin(links, a, k) ==
    IF k < 0 THEN {}
    ELSE IF k = 0 THEN {a}
    ELSE LET r == ReachWithin(links, a, k - 1) IN
         r \cup {e[2] : e \in {x \in links : x[1] \in r}}

\* C9: with no sub-matcher installed and a # b, HasLink(a, b) returns true iff b
\* is reachable from a by a path of at most maxHierarchyLevel - 1 links.
C9_HasLinkBounded ==
    (HasLinkDone /\ matcher = Nil /\ rmCall.name1 # rmCall.name2)
    => (rmCall.ret <=> rmCall.name2 \in ReachWithin(roles, rmCall.name1, maxHierarchyLevel - 1))

\* C9 witness: the target is two links away and maxHierarchyLevel is 2: false.
C9_Witness ==
    /\ HasLinkDone /\ matcher = Nil /\ rmCall.name1 # rmCall.name2
    /\ maxHierarchyLevel = 2
    /\ rmCall.name2 \in ReachWithin(roles, rmCall.name1, 2)
    /\ rmCall.ret = FALSE

\* The number of recursive calls a HasLink search may make.
MaxExpansions == IF maxHierarchyLevel > 0 THEN maxHierarchyLevel ELSE 0

\* C10: every HasLink call returns, and its search makes at most
\* maxHierarchyLevel frontier expansions; a search that made them all without a
\* hit returns false.
C10_HasLinkTerminates ==
    /\ [](expansions <= MaxExpansions)
    /\ []((rpc = "defer" /\ expansions = MaxExpansions /\ level <= 0) => rmCall.ret = FALSE)
    /\ ((rpc = "search") ~> (rpc = "idle"))

\* C10 witness: on a graph with a cycle through name1 the search used every level
\* and returned false.
C10_Witness ==
    /\ HasLinkDone /\ rmCall.ret = FALSE
    /\ maxHierarchyLevel = MaxLevel
    /\ expansions = maxHierarchyLevel
    /\ rmCall.name1 \in ReachWithin(roles \ {<<rmCall.name1, rmCall.name1>>}, rmCall.name1, 2) \ {rmCall.name1}
        \/ <<rmCall.name1, rmCall.name1>> \in roles

\* C23: an Enforce call in which MergeEffects returned an error has stopped the
\* iteration at that rule and returns a non-nil error.
C23_EffectorError ==
    (EnforceDone /\ eftErr # Nil) =>
        /\ calls[Len(calls)].err # Nil
        /\ calls[Len(calls)].nvisited = Len(visited)
        /\ call.err # Nil

\* The part of C23 about the iteration: no rule is evaluated after the MergeEffects
\* call that returned the error.
C23_IterationStops ==
    (EnforceDone /\ eftErr # Nil) =>
        /\ calls[Len(calls)].err # Nil
        /\ calls[Len(calls)].nvisited = Len(visited)

----------------------------------------------------------------------------
(* Properties of NewEnforcer and LoadPolicy (checked under SpecStore) *)

\* The rules the model holds.
StoredRules == {ruleMap[k] : k \in DOMAIN ruleMap}

NewEnforcerDone == ecall.op = "NewEnforcer" /\ ecall.err = Nil

StorageReenabled == \E i \in 1..Len(ecall.opts) : ecall.opts[i] = [opt |-> "storage", on |-> TRUE]

\* C24: after a successful NewEnforcer with a path, the rules of the file are in
\* the model and the enforcer and its storage controller hold the file adapter of
\* that path; with a nil adapter the enforcer holds the no-op adapter and storage is
\* disabled unless an option of the caller enables it.
C24_NewEnforcerAdapter ==
    NewEnforcerDone =>
        /\ ecall.arg.kind = "string" =>
              /\ StoredIn(FileAdapter(ecall.arg.path)) \subseteq StoredRules
              /\ adapter = FileAdapter(ecall.arg.path)
              /\ sc.adapter = FileAdapter(ecall.arg.path)
        /\ ecall.arg.kind = "nil" =>
              /\ adapter = NoopAdapter
              /\ sc.adapter = NoopAdapter
              /\ sc.enabled => StorageReenabled

\* The parts of C24 other than the adapter held after a path was given.
C24_LoadedAndNoop ==
    NewEnforcerDone =>
        /\ ecall.arg.kind = "string" =>
              StoredIn(FileAdapter(ecall.arg.path)) \subseteq StoredRules
        /\ ecall.arg.kind = "nil" =>
              /\ adapter = NoopAdapter
              /\ sc.adapter = NoopAdapter
              /\ sc.enabled => StorageReenabled

LoadPolicyCalled == ecall.op = "LoadPolicy"

\* C26: during LoadPolicy the storage controller is disabled and hears of no rule
\* the adapter adds; when LoadPolicy has ended, with or without an error, the
\* controller is enabled exactly if it was before; and every rule the model held
\* before is still in it.
C26_LoadPolicy ==
    LoadPolicyCalled =>
        /\ ecall.heard = {}
        /\ ~ecall.done => ~sc.enabled
        /\ ecall.done => sc.enabled = ecall.enabledBefore
        /\ \A k \in DOMAIN ecall.before : k \in DOMAIN ruleMap /\ ruleMap[k] = ecall.before[k]

\* A LoadPolicy that began with the controller enabled and a rule in the model,
\* added a rule, and returned without an error.
C26_Witness ==
    /\ LoadPolicyCalled /\ ecall.done /\ ecall.err = Nil
    /\ ecall.enabledBefore
    /\ ecall.before # EmptyMap
    /\ ruleMap # ecall.before

----------------------------------------------------------------------------
(* Properties of AddRules / RemoveRules (checked under SpecBatch) *)

BatchCalled == batch.op # "none"

\* C18: a batch entered with autosave enabled applies every rule with autosave off,
\* flushes nothing before it ends, and ends (also on the early return after a
\* rejected rule) with exactly one Flush, made after the last applied rule, and
\* with autosave enabled; a batch entered with autosave disabled never flushes and
\* leaves autosave disabled.
C18_BatchPersistsOnce ==
    BatchCalled =>
        IF batch.entry
        THEN /\ batch.appliedWith \subseteq {FALSE}
             /\ ~batch.done => (~autosave /\ batch.flushes = 0)
             /\ batch.done => /\ batch.flushes = 1
                              /\ batch.flushedAt = batch.applied
                              /\ batch.exit /\ autosave
        ELSE /\ batch.flushes = 0
             /\ ~autosave
             /\ batch.done => ~batch.exit

\* A batch of two rules entered with autosave enabled whose second rule was
\* rejected after the first changed the model, and which has ended.
C18_Witness ==
    /\ BatchCalled /\ batch.done /\ batch.entry
    /\ Len(batch.rules) = 2 /\ batch.applied = 1 /\ batch.err = Err
    /\ ruleMap # batch.before

\* C19: when the Flush of a batch entered with autosave enabled fails, the call
\* returns the failure as its error and the model is as it was before the batch.
C19_PersistFailure ==
    (BatchCalled /\ batch.done /\ batch.entry /\ batch.flushFailed) =>
        /\ ~batch.panic
        /\ batch.err # Nil
        /\ ruleMap = batch.before

----------------------------------------------------------------------------
(* Properties of Policy.Range (checked under SpecPolicyRange) *)

RangeCalled == call.op = "Range"

\* C20: in a Policy.Range call the visitor is called at most once per stored rule
\* and only on stored rules; a call the visitor answered with false is the last one
\* of that Range call; when the Range call has returned and every answer was true,
\* every stored rule was visited; and the table is as it was when Range began.
C20_PolicyRange ==
    RangeCalled =>
        /\ \A i \in 1..Len(calls), j \in 1..Len(calls) : i # j => calls[i].rule # calls[j].rule
        /\ \A i \in 1..Len(calls) : calls[i].rule \in StoredRules
        /\ \A i \in 1..Len(calls) : ~calls[i].ret => i = Len(calls)
        /\ (call.done /\ \A i \in 1..Len(calls) : calls[i].ret) =>
              {calls[i].rule : i \in 1..Len(calls)} = StoredRules
        /\ ruleMap = call.before

\* A Range call over three rules that the visitor stopped at the second, and has
\* returned.
C20_Witness ==
    /\ RangeCalled /\ call.done
    /\ Cardinality(DOMAIN ruleMap) = 3
    /\ Len(calls) = 2
    /\ ~calls[2].ret

----------------------------------------------------------------------------
(* Properties of the path matcher (checked under SpecPath) *)

PathCalled == pcall.op \in {"Match", "FindSubmatch"}

\* The call matched: Match returned true, FindSubmatch a map.
PathMatched ==
    IF pcall.op = "Match" THEN pcall.ret = "true"
    ELSE pcall.op = "FindSubmatch" /\ pcall.ret.kind = "match"

\* The segments of the matched string.
InSegs == Split(pcall.s)

SegIdx == 1..Len(path.Segments)
ParamIdx    == {i \in SegIdx : path.Segments[i].type = "Parameterized"}
WildcardIdx == {i \in SegIdx : path.Segments[i].type = "Wildcard"}

KeysDistinct ==
    \A i \in ParamIdx, j \in ParamIdx : i # j => path.Segments[i].key # path.Segments[j].key

\* As many segments as the pattern, each static segment equal to the input
\* segment at its position.
SegmentwiseEqual ==
    /\ Len(InSegs) = Len(path.Segments)
    /\ \A i \in SegIdx : path.Segments[i].type = "Static" => InSegs[i] = path.Segments[i].value

\* C13: for a pattern of static and parameterised segments only (the equality
\* check off, or no key used twice), Match and FindSubmatch succeed iff the input
\* has exactly the pattern's number of segments and every static segment equals
\* the input segment at its position; FindSubmatch then captures under every key
\* the input segment at the key's position.
C13_StaticParamMatch ==
    (PathCalled /\ WildcardIdx = {} /\ (~path.equalCheck \/ KeysDistinct)) =>
        /\ PathMatched <=> SegmentwiseEqual
        /\ (pcall.op = "FindSubmatch" /\ PathMatched /\ KeysDistinct) =>
              /\ DOMAIN pcall.ret.match = {path.Segments[i].key : i \in ParamIdx}
              /\ \A i \in ParamIdx : pcall.ret.match[path.Segments[i].key] = InSegs[i]

\* /foo/:name against /foo/bar captured name = bar.
C13_Witness ==
    /\ path.path = <<"/", "foo", "/", ":", "name">>
    /\ pcall.op = "FindSubmatch"
    /\ pcall.s = <<"/", "foo", "/", "bar">>
    /\ pcall.ret.kind = "match"
    /\ pcall.ret.match[<<"name">>] = <<"bar">>

\* The input segments q joined by the separator.
RECURSIVE JoinSegs(_)
JoinSegs(q) ==
    IF q = <<>> THEN <<>>
    ELSE IF Len(q) = 1 THEN q[1]
    ELSE q[1] \o <<Seperator>> \o JoinSegs(Tail(q))

\* The assignments of the input segments t to the pattern segments p: each static
\* or parameterised segment takes one input segment (a static one the segment equal
\* to it), each wildcard one or more consecutive ones; an assignment lists the
\* value of every pattern segment.
RECURSIVE Assignments(_, _)
Assignments(p, t) ==
    IF p = <<>> THEN (IF t = <<>> THEN {<<>>} ELSE {})
    ELSE IF t = <<>> THEN {}
    ELSE IF Head(p).type = "Static"
    THEN IF Head(t) = Head(p).value
         THEN {<<Head(t)>> \o a : a \in Assignments(Tail(p), Tail(t))} ELSE {}
    ELSE IF Head(p).type = "Parameterized"
    THEN {<<Head(t)>> \o a : a \in Assignments(Tail(p), Tail(t))}
    ELSE UNION {{<<JoinSegs(SubSeq(t, 1, k))>> \o a :
                    a \in Assignments(Tail(p), SubSeq(t, k + 1, Len(t)))} : k \in 1..Len(t)}

\* The i-th wildcard of the pattern, counted from 0, has the key $i.
WildcardKeysInOrder ==
    \A i \in WildcardIdx :
        path.Segments[i].key = <<"$", Itoa(Cardinality({j \in WildcardIdx : j < i}))>>

\* C14: on a freshly compiled pattern with wildcard segments (equality check off),
\* a call matches iff some assignment exists in which every wildcard covers one or
\* more consecutive input segments and every other segment one; the wildcards have
\* the keys $0, $1, ... in source order and FindSubmatch captures under them.
C14_WildcardMatch ==
    (PathCalled /\ WildcardIdx # {} /\ ~path.equalCheck) =>
        /\ PathMatched <=> Assignments(path.Segments, InSegs) # {}
        /\ WildcardKeysInOrder
        /\ (pcall.op = "FindSubmatch" /\ PathMatched) =>
              \A i \in WildcardIdx : path.Segments[i].key \in DOMAIN pcall.ret.match

\* The pattern with every parameterised segment replaced by its captured value.
RECURSIVE SubstituteParams(_, _)
SubstituteParams(segs, match) ==
    IF segs = <<>> THEN <<>>
    ELSE LET seg == Head(segs)
             v   == IF seg.type = "Static" THEN seg.value
                    ELSE IF seg.type = "Parameterized" THEN match[seg.key]
                    ELSE <<Wildcard>>
         IN  <<v>> \o SubstituteParams(Tail(segs), match)

\* The pattern with every parameterised and every wildcard segment replaced by
\* its captured value.
RECURSIVE SubstituteAll(_, _)
SubstituteAll(segs, match) ==
    IF segs = <<>> THEN <<>>
    ELSE LET seg == Head(segs)
             v   == IF seg.type = "Static" THEN seg.value ELSE match[seg.key]
         IN  <<v>> \o SubstituteAll(Tail(segs), match)

KeysAgree(a) ==
    \A i \in ParamIdx, j \in ParamIdx :
        path.Segments[i].key = path.Segments[j].key => a[i] = a[j]

\* C16: with the equality check enabled, a pattern that uses a key in two
\* segments matches an input, in Match as in FindSubmatch, iff some assignment of
\* input segments to pattern segments (with every wildcard extension) gives both
\* occurrences of the key equal values.
C16_EqualityCheck ==
    (PathCalled /\ path.equalCheck /\ ~KeysDistinct) =>
        (PathMatched <=> \E a \in Assignments(path.Segments, InSegs) : KeysAgree(a))

\* What the last call returns on a freshly compiled Path of the same pattern.
FreshResult ==
    LET fresh == Compile(path.path, path.equalCheck) IN
    IF pcall.op = "Match"
    THEN LET out == getMatch(fresh, pcall.s, FALSE \/ fresh.equalCheck) IN
         IF out.ret = MatchPanic THEN "panic"
         ELSE IF out.ret # MatchNil THEN "true" ELSE "false"
    ELSE getMatch(fresh, pcall.s, TRUE).ret

\* C21: whatever calls a Path served before, a Match or FindSubmatch call returns
\* what it returns on a freshly compiled Path of the same pattern, and it does not
\* index past the end of its input.
C21_CallsIndependent ==
    PathCalled =>
        /\ pcall.ret = FreshResult
        /\ IF pcall.op = "Match" THEN pcall.ret # "panic" ELSE pcall.ret # MatchPanic

----------------------------------------------------------------------------
(* Properties of RoleManager.Range (checked under SpecRMRange) *)

RMRangeCalled == rmCall.op = "Range"

Visits == rmCall.visits

\* C25: in a RoleManager.Range call no link marked redundant is visited and no link
\* is visited twice; a call the visitor answered with false is the last one of that
\* Range call; and when the Range call has returned and every answer was true,
\* every link not marked redundant was visited.
C25_RoleManagerRange ==
    RMRangeCalled =>
        /\ \A i \in 1..Len(Visits) : Visits[i].link \in roles \ redundant
        /\ \A i \in 1..Len(Visits), j \in 1..Len(Visits) :
              i # j => Visits[i].link # Visits[j].link
        /\ \A i \in 1..Len(Visits) : ~Visits[i].ret => i = Len(Visits)
        /\ (rmCall.done /\ \A i \in 1..Len(Visits) : Visits[i].ret) =>
              {Visits[i].link : i \in 1..Len(Visits)} = roles \ redundant

\* The parts of C25 other than the stop after false.
C25_VisitsOnceNoRedundant ==
    RMRangeCalled =>
        /\ \A i \in 1..Len(Visits) : Visits[i].link \in roles \ redundant
        /\ \A i \in 1..Len(Visits), j \in 1..Len(Visits) :
              i # j => Visits[i].link # Visits[j].link
        /\ (rmCall.done /\ \A i \in 1..Len(Visits) : Visits[i].ret) =>
              {Visits[i].link : i \in 1..Len(Visits)} = roles \ redundant

----------------------------------------------------------------------------
(* Properties of AddLink beside queries (checked under SpecConcLink) *)

\* C22: once every call has returned, the link of each AddLink call among them is in
\* the graph: Range reports it and HasLink finds it.
C22_LinkNotLost ==
    AllReturned =>
        \A t \in Threads :
            (thr[t].pc = "done" /\ thr[t].op = "AddLink") =>
                /\ thr[t].n1 \in allRoles
                /\ <<thr[t].n1, thr[t].n2>> \in RangeLinks(Graph)
                /\ \A out \in HelperOutcomes(Graph, matchingFuncCache, thr[t].n2,
                                              {thr[t].n1}, maxHierarchyLevel) : out.ret

----------------------------------------------------------------------------
(* Properties of SetMatcher (checked under SpecRMLinks) *)

SetMatcherDone == rmCall.op = "SetMatcher"

\* The links rebuild re-adds, no link marked redundant_role among them, no mark left.
LinksRebuilt ==
    /\ roles \ redundant = rmCall.links \ rmCall.marked
    /\ roles \cap rmCall.marked = {}
    /\ redundant = {}

\* The results the rebuild's getRole calls computed: one for every pattern role
\* and every other role.
RebuildCache ==
    {<<n, p, Match(n, p)>> : n \in allRoles, p \in patternRoles} \ {<<p, p, TRUE>> : p \in patternRoles}

----------------------------------------------------------------------------
(* Properties of concurrent queries (checked under SpecConc) *)

\* C11: concurrent HasLink / GetRoles / GetUsers calls with no concurrent writer:
\* under every interleaving no call fails, and once all have returned, allRoles
\* and patternRoles are what they were before the calls.
C11_ConcurrentQueriesSafe ==
    /\ NoPanic
    /\ AllReturned => /\ allRoles = concBefore.allRoles
                      /\ patternRoles = concBefore.patternRoles

====
